---- MODULE Spec2Model ----
(***************************************************************************)
(* SKEIN: the artifact graph (sites, folios, threads, the derived-state    *)
(* cache and the HTTP surface) and the shard subsystem (worktree cleanup   *)
(* and merge), modelled from src/skein.                                    *)
(*                                                                         *)
(* Every HTTP handler is one action: the handlers are coroutines that     *)
(* never suspend (they call the synchronous store directly), so within a  *)
(* server process they run one after the other on the event loop.          *)
(***************************************************************************)
EXTENDS Integers, Sequences, FiniteSets, TLC

\* ------------------------------------------------------------------ bounds

\* Largest reading of the wall clock (datetime.now()) the model explores.
MaxClock == 1
\* Number of HTTP requests served in one explored run.
MaxRequests == 4

\* ---------------------------------------------------------------- universe

None == "None"
NotCached == "NotCached"

\* Registered projects (keys of ~/.skein/projects.json) and the absent header.
Projects == {"acme", "beta"}
NoProject == "no-project"

Sites == {"ops"}
\* Values generate_folio_id / generate_thread_id can return (random suffixes).
FolioIds == {"issue-a7b3"}
ThreadIds == {"thread-p8q2", "thread-k3m9"}
Agents == {"alice", "bob"}
\* The X-Agent-Id of the callers.
Callers == {"alice"}
StatusValues == {"investigating", "closed"}

NoThread == [thread_id |-> None]
NoFolio == [folio_id |-> None]

VARIABLES
    sites,             \* [project -> set of site ids with a metadata record]
    folios,            \* [project -> [folio id -> stored folio record]]
    threads,           \* [project -> [thread id -> stored thread record]]
    status_cache,      \* utils._status_cache: one per process, keyed by folio id
    assignment_cache,  \* utils._assignment_cache
    now,               \* the wall clock
    requests,          \* number of requests served
    lastReq,           \* the last request: its project header, its response code
                       \* and the identifiers it generated
    roster             \* [project -> [agent id -> status in roster/agents.json]]

skeinVars == <<sites, folios, threads, status_cache, assignment_cache, now,
               requests, lastReq, roster>>

VARIABLES
    repo,              \* the git repository and its worktrees directory
    git_version,       \* the installed git, as (major, minor)
    cwd,               \* the working directory of the process calling shard.py
    calls,             \* number of shard operations called
    result,            \* the last shard operation: its arguments and outcome
    grafts,            \* [shard -> the commits on its branch and its graft]
    spawning,          \* [process -> how far its spawn_shard call has got]
    args,              \* the arguments of a function called on its own
    returned,          \* <<the value it returned>>, <<>> before it did
    yields,            \* the chain ids with a yield stored in skein.db
    completing,        \* how far the `skein complete` of an agent has got
    disk               \* one record file of the store, as two processes see it

shardVars == <<repo, git_version, cwd, calls, result, grafts, spawning, args, returned,
               yields, completing, disk>>

vars == <<sites, folios, threads, status_cache, assignment_cache, now, requests,
          lastReq, roster, repo, git_version, cwd, calls, result, grafts, spawning,
          args, returned, yields, completing, disk>>

\* -------------------------------------------------------------- record files

\* How many times the server saves the record, and into how many buffers
\* json.dump can split its text (the last one is flushed when the file closes).
MaxWrites == 3
MaxChunks == 2

\* The text of version v of a record, as the n buffers it is written in.
json_dump(v, n) == [i \in 1..n |-> <<v, i, n>>]

\* json.load: the record a text holds; a text that is not a whole record
\* (an empty file, a missing end) raises JSONDecodeError.
json_load(text) ==
    IF text # <<>> /\ text = json_dump(text[1][1], text[1][3])
    THEN [data |-> text] ELSE [raised |-> "JSONDecodeError"]

\* The file of one record holding its first version, nobody writing or reading.
NoDisk == [file |-> json_dump(0, 1), previous |-> json_dump(0, 1),
           new |-> json_dump(0, 1), writing |-> FALSE, written |-> 0,
           loaded |-> <<>>]

\* JSONStore._save_json, open(file_path, 'w'): the server truncates the file
\* of the record it is about to write.
open_w ==
    \E n \in 1..MaxChunks :
        /\ ~disk.writing
        /\ disk.written < MaxWrites
        /\ disk' = [disk EXCEPT !.file = <<>>, !.previous = disk.file,
                                !.new = json_dump(disk.written + 1, n),
                                !.writing = TRUE, !.written = @ + 1]
        /\ UNCHANGED <<repo, git_version, cwd, calls, result, grafts, spawning, args,
                       returned, yields, completing>>
        /\ UNCHANGED skeinVars

\* JSONStore._save_json, json.dump: a full buffer goes to the file.
dump ==
    /\ disk.writing
    /\ Len(disk.file) + 1 < Len(disk.new)
    /\ disk' = [disk EXCEPT !.file = Append(@, disk.new[Len(disk.file) + 1])]
    /\ UNCHANGED <<repo, git_version, cwd, calls, result, grafts, spawning, args,
                   returned, yields, completing>>
    /\ UNCHANGED skeinVars

\* JSONStore._save_json, the end of the with block: the rest of the text goes
\* to the file and the file closes.
close ==
    /\ disk.writing
    /\ Len(disk.file) + 1 = Len(disk.new)
    /\ disk' = [disk EXCEPT !.file = disk.new, !.writing = FALSE]
    /\ UNCHANGED <<repo, git_version, cwd, calls, result, grafts, spawning, args,
                   returned, yields, completing>>
    /\ UNCHANGED skeinVars

\* JSONStore._load_json in the web UI process (skein.web.app builds its own
\* JSONStore on the same data directory): it reads what the file holds now.
_load_json ==
    /\ disk' = [disk EXCEPT !.loaded = <<json_load(disk.file)>>]
    /\ UNCHANGED <<repo, git_version, cwd, calls, result, grafts, spawning, args,
                   returned, yields, completing>>
    /\ UNCHANGED skeinVars

\* The server saving a record while the web UI loads it.
DiskNext ==
    \/ open_w
    \/ dump
    \/ close
    \/ _load_json

\* ------------------------------------------------------------- object store

\* JSONStore.save_thread: writes threads/<thread_id>.json, whatever was there.
save_thread(store, thread) == [store EXCEPT ![thread.thread_id] = thread]

\* JSONStore.get_threads(from_id, to_id, type): None means "no filter".
get_threads(store, from_id, to_id, type) ==
    { store[i] : i \in { j \in ThreadIds :
        /\ store[j] # NoThread
        /\ (from_id # None => store[j].from_id = from_id)
        /\ (to_id # None => store[j].to_id = to_id)
        /\ (type # None => store[j].type = type) } }

\* JSONStore.save_folio: refuses when the site directory is missing.
save_folio(p, folio) ==
    IF folio.site_id \in sites[p]
    THEN [folios EXCEPT ![p][folio.folio_id] = folio]
    ELSE folios

\* A lookup that finds every site.
get_site_any(p, site_id) == TRUE

\* JSONStore.get_site: the site is there when its metadata.json is.
get_site(p, site_id) == site_id \in sites[p]

\* JSONStore.mark_thread_read: rewrites the record with read_at set.
mark_thread_read(store, thread_id) ==
    [store EXCEPT ![thread_id] = [store[thread_id] EXCEPT !.read_at = now]]

\* ------------------------------------------------------ derived-state engine

\* The threads sort(key=created_at, reverse=True) can put first: the sort is
\* stable, and the directory order of equal timestamps is arbitrary.
Latest(ts) == { t \in ts : \A u \in ts : u.created_at <= t.created_at }

\* get_current_status on a cache miss: the values it can compute.
FreshStatus(store, folio_id) ==
    LET status_threads == get_threads(store, None, folio_id, "status")
    IN  IF status_threads = {} THEN {None}
        ELSE { t.content : t \in Latest(status_threads) }

\* get_current_assignment on a cache miss.
FreshAssignment(store, folio_id) ==
    LET assignment_threads == get_threads(store, folio_id, None, "assignment")
    IN  IF assignment_threads = {} THEN {None}
        ELSE { t.to_id : t \in Latest(assignment_threads) }

\* get_current_status: the pairs <<returned value, cache afterwards>>.
get_current_status(cache, store, folio_id) ==
    IF cache[folio_id] # NotCached
    THEN { <<cache[folio_id], cache>> }
    ELSE { <<v, [cache EXCEPT ![folio_id] = v]>> : v \in FreshStatus(store, folio_id) }

\* get_current_assignment: the pairs <<returned value, cache afterwards>>.
get_current_assignment(cache, store, folio_id) ==
    IF cache[folio_id] # NotCached
    THEN { <<cache[folio_id], cache>> }
    ELSE { <<v, [cache EXCEPT ![folio_id] = v]>> : v \in FreshAssignment(store, folio_id) }

\* invalidate_status_cache / invalidate_assignment_cache: drop the folio's entry.
invalidate(cache, folio_id) ==
    IF folio_id \in DOMAIN cache THEN [cache EXCEPT ![folio_id] = NotCached] ELSE cache

\* auto_invalidate_cache(thread_type, folio_id): the two caches afterwards.
auto_invalidate_cache(thread_type, folio_id, sc, ac) ==
    IF thread_type = "status" THEN <<invalidate(sc, folio_id), ac>>
    ELSE IF thread_type = "assignment" THEN <<sc, invalidate(ac, folio_id)>>
    ELSE <<sc, ac>>

\* -------------------------------------------------------------- HTTP surface

\* The dependency each route resolves its project with (routes.py).
Endpoints == {
    "POST /roster/register", "GET /roster", "GET /roster/{id}", "PATCH /roster/{id}",
    "POST /sites", "GET /sites", "GET /sites/{id}", "GET /sites/{id}/folios",
    "POST /sites/{id}/folios", "POST /folios", "GET /folios", "GET /folios/search",
    "GET /folios/{id}", "PATCH /folios/{id}", "POST /threads", "GET /threads",
    "GET /inbox", "PATCH /threads/{id}/read", "GET /activity", "GET /search",
    "POST /logs", "GET /logs/streams", "GET /logs/{stream}",
    "POST /screenshots", "GET /screenshots", "GET /screenshots/{id}",
    "GET /screenshots/{id}/metadata",
    "POST /yields", "GET /yields/chain/{id}", "GET /yields/{id}",
    "GET /yields/status/{status}", "GET /yields/agent/{id}",
    "POST /naming/generate" }

LogEndpoints == {
    "POST /logs", "GET /logs/streams", "GET /logs/{stream}",
    "GET /screenshots", "GET /screenshots/{id}", "GET /screenshots/{id}/metadata",
    "POST /yields", "GET /yields/chain/{id}", "GET /yields/{id}",
    "GET /yields/status/{status}", "GET /yields/agent/{id}" }

Depends(endpoint) ==
    IF endpoint = "POST /naming/generate" THEN "none"
    ELSE IF endpoint = "POST /screenshots" THEN "get_project_screenshots_dir"
    ELSE IF endpoint \in LogEndpoints THEN "get_project_log_db"
    ELSE "get_project_store"

\* A project identifier that ~/.skein/projects.json does not list.
Unregistered == "ghost"

\* get_data_dir_for_project: the registered project's data directory (made if
\* missing); a ValueError for any other identifier. Nothing catches the error
\* on the way up, so global_exception_handler answers it.
get_data_dir_for_project(project_id) ==
    IF project_id \in Projects THEN "data_dir" ELSE "ValueError"

\* get_project_store (and its two siblings): the status the dependency answers
\* with before the handler runs, 200 standing for "the handler runs".
get_project_store(x_project_id) ==
    IF x_project_id = NoProject THEN 400
    ELSE IF get_data_dir_for_project(x_project_id) = "ValueError" THEN 500
    ELSE 200

\* A request is answered: folio_id and thread_ids are what generate_folio_id and
\* generate_thread_id returned while it was handled.
Routed(x_project_id, code, site_id, folio_id, thread_ids) ==
    /\ requests < MaxRequests
    /\ requests' = requests + 1
    /\ lastReq' = [project |-> x_project_id, code |-> code, site_id |-> site_id,
                   folio_id |-> folio_id, thread_ids |-> thread_ids]
    /\ UNCHANGED shardVars

\* A request to a route without a site in its path.
Answered(x_project_id, code, folio_id, thread_ids) ==
    Routed(x_project_id, code, None, folio_id, thread_ids)

\* A request of a handler that creates records and leaves the roster alone.
Created(x_project_id, code, folio_id, thread_ids) ==
    /\ Answered(x_project_id, code, folio_id, thread_ids)
    /\ UNCHANGED roster

\* A request of a handler that generates no identifier.
Served(x_project_id, code) == Created(x_project_id, code, None, {})

\* A request to a route with a project dependency, sent without the header.
request_without_project(endpoint) ==
    /\ Depends(endpoint) # "none"
    /\ Served(NoProject, get_project_store(NoProject))
    /\ UNCHANGED <<sites, folios, threads, status_cache, assignment_cache, now>>

\* A request to a route with a project dependency, naming an unregistered
\* project.
request_unknown_project(endpoint) ==
    /\ Depends(endpoint) # "none"
    /\ Served(Unregistered, get_project_store(Unregistered))
    /\ UNCHANGED <<sites, folios, threads, status_cache, assignment_cache, now>>

\* POST /naming/generate: the header is optional and only passed on.
generate_name(x_project_id) ==
    /\ Served(x_project_id, 200)
    /\ UNCHANGED <<sites, folios, threads, status_cache, assignment_cache, now>>

\* ------------------------------------------------------------------ handlers

Thread(thread_id, from_id, to_id, type, content, weaver) ==
    [thread_id |-> thread_id, from_id |-> from_id, to_id |-> to_id, type |-> type,
     content |-> content, weaver |-> weaver, created_at |-> now, read_at |-> None]

\* POST /sites
create_site(p, site_id) ==
    /\ Served(p, get_project_store(p))
    /\ sites' = [sites EXCEPT ![p] = @ \cup {site_id}]
    /\ UNCHANGED <<folios, threads, status_cache, assignment_cache, now>>

\* The threads post_to_site appends after saving the folio, in order: one per
\* mention, the status sugar, the assignment sugar, the target_agent message.
SugarThreads(folio_id, mentions, status, assigned_to, target_agent, weaver) ==
    LET m == IF mentions = None THEN <<>>
             ELSE << [from_id |-> folio_id, to_id |-> mentions, type |-> "mention",
                      content |-> "Mentioned in", weaver |-> weaver] >>
        s == IF status # None /\ status # "open"
             THEN << [from_id |-> folio_id, to_id |-> folio_id, type |-> "status",
                      content |-> status, weaver |-> weaver] >>
             ELSE <<>>
        a == IF assigned_to # None
             THEN << [from_id |-> folio_id, to_id |-> assigned_to, type |-> "assignment",
                      content |-> "Assigned", weaver |-> weaver] >>
             ELSE <<>>
        t == IF target_agent # None
             THEN << [from_id |-> folio_id, to_id |-> target_agent, type |-> "message",
                      content |-> "Brief for you", weaver |-> weaver] >>
             ELSE <<>>
    IN  m \o s \o a \o t

\* store.save_thread for each of protos, with the generated ids, in order.
RECURSIVE SaveAll(_, _, _)
SaveAll(store, protos, ids) ==
    IF protos = <<>> THEN store
    ELSE LET h == Head(protos)
         IN  SaveAll(save_thread(store, Thread(Head(ids), h.from_id, h.to_id, h.type,
                                               h.content, h.weaver)),
                     Tail(protos), Tail(ids))

\* POST /sites/{site_id}/folios (and POST /folios, which calls it)
post_to_site(p, site_id, weaver, mentions, status, assigned_to, target_agent) ==
    IF ~get_site(p, site_id)
    THEN /\ Routed(p, 404, site_id, None, {})
         /\ UNCHANGED <<roster, sites, folios, threads, status_cache,
                        assignment_cache, now>>
    ELSE \E folio_id \in FolioIds :
         LET folio == [folio_id |-> folio_id, site_id |-> site_id,
                       status |-> "open", assigned_to |-> None]
             protos == SugarThreads(folio_id, mentions, status, assigned_to,
                                    target_agent, weaver)
         IN  \E ids \in [1..Len(protos) -> ThreadIds] :
             /\ Routed(p, 200, site_id, folio_id, { ids[i] : i \in DOMAIN ids })
             /\ UNCHANGED roster
             /\ folios' = save_folio(p, folio)
             /\ threads' = [threads EXCEPT ![p] = SaveAll(@, protos, ids)]
             /\ status_cache' =
                  IF status # None /\ status # "open"
                  THEN auto_invalidate_cache("status", folio_id,
                                             status_cache, assignment_cache)[1]
                  ELSE status_cache
             /\ assignment_cache' =
                  IF assigned_to # None
                  THEN auto_invalidate_cache("assignment", folio_id,
                                             status_cache, assignment_cache)[2]
                  ELSE assignment_cache
             /\ UNCHANGED <<sites, now>>

\* GET /folios/{folio_id}
get_folio(p, folio_id) ==
    IF folios[p][folio_id] = NoFolio
    THEN /\ Served(p, 404)
         /\ UNCHANGED <<sites, folios, threads, status_cache, assignment_cache, now>>
    ELSE /\ Served(p, 200)
         /\ \E s \in get_current_status(status_cache, threads[p], folio_id) :
                status_cache' = s[2]
         /\ \E a \in get_current_assignment(assignment_cache, threads[p], folio_id) :
                assignment_cache' = a[2]
         /\ UNCHANGED <<sites, folios, threads, now>>

\* The caches after get_current_status / get_current_assignment ran for every
\* folio of fs (GET /folios, GET /sites/{id}/folios, GET /search).
RECURSIVE LookupAll(_, _, _)
LookupAll(caches, store, fs) ==
    IF fs = {} THEN {caches}
    ELSE LET f == CHOOSE x \in fs : TRUE
         IN  UNION { LookupAll(<<s[2], a[2]>>, store, fs \ {f}) :
                     s \in get_current_status(caches[1], store, f),
                     a \in get_current_assignment(caches[2], store, f) }

\* GET /folios
get_folios(p) ==
    /\ Served(p, 200)
    /\ \E c \in LookupAll(<<status_cache, assignment_cache>>, threads[p],
                          { f \in FolioIds : folios[p][f] # NoFolio }) :
          /\ status_cache' = c[1]
          /\ assignment_cache' = c[2]
    /\ UNCHANGED <<sites, folios, threads, now>>

\* PATCH /folios/{folio_id}
update_folio(p, folio_id, weaver, status, assigned_to) ==
    IF folios[p][folio_id] = NoFolio
    THEN /\ Served(p, 404)
         /\ UNCHANGED <<sites, folios, threads, status_cache, assignment_cache, now>>
    ELSE \E id1 \in IF status # None THEN ThreadIds ELSE {None},
            id2 \in IF assigned_to # None THEN ThreadIds ELSE {None} :
         LET folio == folios[p][folio_id]
             s1 == IF status # None
                   THEN save_thread(threads[p],
                            Thread(id1, folio_id, folio_id, "status", status, weaver))
                   ELSE threads[p]
             s2 == IF assigned_to # None
                   THEN save_thread(s1,
                            Thread(id2, folio_id, assigned_to, "assignment",
                                   "Assigned to", weaver))
                   ELSE s1
             patched == [folio EXCEPT
                           !.status = IF status # None THEN status ELSE @,
                           !.assigned_to = IF assigned_to # None THEN assigned_to ELSE @]
         IN  /\ Created(p, 200, None, {id1, id2} \ {None})
             /\ threads' = [threads EXCEPT ![p] = s2]
             /\ status_cache' =
                  IF status # None
                  THEN auto_invalidate_cache("status", folio_id,
                                             status_cache, assignment_cache)[1]
                  ELSE status_cache
             /\ assignment_cache' =
                  IF assigned_to # None
                  THEN auto_invalidate_cache("assignment", folio_id,
                                             status_cache, assignment_cache)[2]
                  ELSE assignment_cache
             /\ folios' = save_folio(p, patched)
             /\ UNCHANGED <<sites, now>>

\* POST /threads
create_thread(p, from_id, to_id, type, content, weaver) ==
    \E thread_id \in ThreadIds :
    LET c == IF type = "status"
             THEN auto_invalidate_cache("status", to_id, status_cache, assignment_cache)
             ELSE IF type = "assignment"
             THEN auto_invalidate_cache("assignment", from_id,
                                        status_cache, assignment_cache)
             ELSE <<status_cache, assignment_cache>>
    IN  /\ Created(p, 200, None, {thread_id})
        /\ threads' = [threads EXCEPT ![p] =
               save_thread(@, Thread(thread_id, from_id, to_id, type, content, weaver))]
        /\ status_cache' = c[1]
        /\ assignment_cache' = c[2]
        /\ UNCHANGED <<sites, folios, now>>

\* PATCH /threads/{thread_id}/read
mark_read(p, thread_id) ==
    IF threads[p][thread_id] = NoThread
    THEN /\ Served(p, 404)
         /\ UNCHANGED <<sites, folios, threads, status_cache, assignment_cache, now>>
    ELSE /\ Served(p, 200)
         /\ threads' = [threads EXCEPT ![p] = mark_thread_read(@, thread_id)]
         /\ UNCHANGED <<sites, folios, status_cache, assignment_cache, now>>

\* ---------------------------------------------------------------------- roster

\* Roster statuses the callers send (AgentUpdate.status is any string).
AgentStatuses == {"active", "retired"}

\* A save that writes a roster file holding the saved agent alone.
save_agent_alone(p, agent_id, status) ==
    [roster EXCEPT ![p] = [a \in Agents |-> IF a = agent_id THEN status ELSE None]]

\* JSONStore.save_agent: replaces the entry of the same agent_id, else appends.
\* register_agent and update_agent are coroutines that never await: the event
\* loop of the one server process runs each from its read of agents.json to its
\* write without running another, so a request is one step.
save_agent(p, agent_id, status) == [roster EXCEPT ![p][agent_id] = status]

\* POST /roster/register: status=registration.status or "active".
register_agent(p, agent_id, status) ==
    /\ Answered(p, get_project_store(p), None, {})
    /\ roster' = save_agent(p, agent_id, IF status # None THEN status ELSE "active")
    /\ UNCHANGED <<sites, folios, threads, status_cache, assignment_cache, now>>

\* PATCH /roster/{agent_id}
update_agent(p, agent_id, status) ==
    IF roster[p][agent_id] = None
    THEN /\ Served(p, 404)
         /\ UNCHANGED <<sites, folios, threads, status_cache, assignment_cache, now>>
    ELSE /\ Answered(p, 200, None, {})
         /\ roster' = save_agent(p, agent_id,
                                 IF status # None THEN status ELSE roster[p][agent_id])
         /\ UNCHANGED <<sites, folios, threads, status_cache, assignment_cache, now>>

\* ------------------------------------------------------------ skein complete

\* A run of `skein complete`: where it is, the project and agent it runs for,
\* SKEIN_CHAIN_ID (None when unset) and its yield_stored flag.
Completing(pc, project, agent_id, chain_id, yield_stored) ==
    [pc |-> pc, project |-> project, agent_id |-> agent_id, chain_id |-> chain_id,
     yield_stored |-> yield_stored]
NotCompleting == Completing("not called", None, None, None, FALSE)

\* complete, up to "If in a chain, handle yield": GET /roster/{agent_id} must
\* find the agent, else the command raises.
complete(p, agent_id, chain_id) ==
    /\ completing.pc = "not called"
    /\ completing' = Completing(IF roster[p][agent_id] = None THEN "raised"
                                ELSE IF chain_id # None THEN "yield" ELSE "retire",
                                p, agent_id, chain_id, FALSE)
    /\ UNCHANGED <<roster, yields>>
    /\ UNCHANGED <<sites, folios, threads, status_cache, assignment_cache, now,
                   requests, lastReq>>
    /\ UNCHANGED <<repo, git_version, cwd, calls, result, grafts, spawning, args,
                   returned, disk>>

\* POST /yields from complete. ok says whether the request went through and
\* store_yield's log_db.add_yield returned success; if not, make_request raises
\* and complete prints a warning and goes on.
store_yield(ok) ==
    /\ completing.pc = "yield"
    /\ yields' = IF ok THEN yields \cup {completing.chain_id} ELSE yields
    /\ completing' = [completing EXCEPT !.pc = "retire", !.yield_stored = ok]
    /\ UNCHANGED roster
    /\ UNCHANGED <<sites, folios, threads, status_cache, assignment_cache, now,
                   requests, lastReq>>
    /\ UNCHANGED <<repo, git_version, cwd, calls, result, grafts, spawning, args,
                   returned, disk>>

\* "Update status to retired": PATCH /roster/{agent_id} with status retired;
\* ok says whether the request went through (a warning if not).
retire(ok) ==
    /\ completing.pc = "retire"
    /\ roster' = IF ok /\ roster[completing.project][completing.agent_id] # None
                 THEN save_agent(completing.project, completing.agent_id, "retired")
                 ELSE roster
    /\ completing' = [completing EXCEPT !.pc = "done"]
    /\ UNCHANGED yields
    /\ UNCHANGED <<sites, folios, threads, status_cache, assignment_cache, now,
                   requests, lastReq>>
    /\ UNCHANGED <<repo, git_version, cwd, calls, result, grafts, spawning, args,
                   returned, disk>>

\* Time passes between two requests.
Tick ==
    /\ now < MaxClock
    /\ now' = now + 1
    /\ UNCHANGED <<sites, folios, threads, status_cache, assignment_cache,
                   requests, lastReq, roster>>
    /\ UNCHANGED shardVars

\* The local wall clock is set back between two requests (a clock step or the
\* end of daylight saving time: datetime.now() is naive local time).
SetBack ==
    /\ now > 0
    /\ now' = now - 1
    /\ UNCHANGED <<sites, folios, threads, status_cache, assignment_cache,
                   requests, lastReq, roster>>
    /\ UNCHANGED shardVars

\* ------------------------------------------------------------ specification

SkeinInit ==
    /\ sites \in {[p \in Projects |-> {}], [p \in Projects |-> Sites]}
    /\ folios = [p \in Projects |-> [f \in FolioIds |-> NoFolio]]
    /\ threads = [p \in Projects |-> [t \in ThreadIds |-> NoThread]]
    /\ status_cache = [f \in FolioIds |-> NotCached]
    /\ assignment_cache = [f \in FolioIds |-> NotCached]
    /\ now = 0
    /\ requests = 0
    /\ lastReq = [project |-> NoProject, code |-> 0, site_id |-> None,
                  folio_id |-> None, thread_ids |-> {}]
    /\ roster = [p \in Projects |-> [a \in Agents |-> None]]

\* The thread requests the model sends to POST /threads.
ThreadRequests ==
    { [from_id |-> f, to_id |-> f, type |-> "status", content |-> c] :
        f \in FolioIds, c \in StatusValues }
    \cup { [from_id |-> f, to_id |-> "bob", type |-> "assignment", content |-> "yours"] :
        f \in FolioIds }
    \cup { [from_id |-> a, to_id |-> f, type |-> "message", content |-> "hi"] :
        f \in FolioIds, a \in Callers }

\* The requests that name project p.
Requests(p) ==
    \/ \E s \in Sites : create_site(p, s)
    \/ \E s \in Sites, w \in Callers, st \in {None, "closed"}, as \in {None, "alice"} :
           post_to_site(p, s, w, None, st, as, None)
    \/ \E f \in FolioIds : get_folio(p, f)
    \/ get_folios(p)
    \/ \E f \in FolioIds, w \in Callers, st \in {None} \cup StatusValues,
         as \in {None, "bob"} : update_folio(p, f, w, st, as)
    \/ \E r \in ThreadRequests, w \in Callers :
           create_thread(p, r.from_id, r.to_id, r.type, r.content, w)
    \/ \E t \in ThreadIds : mark_read(p, t)

SkeinNext(ps) ==
    \/ \E p \in ps : Requests(p)
    \/ Tick

\* One project, with a wall clock that can also be set back and status threads
\* posted without content (ThreadCreate.content is optional).
OneProjectNext ==
    \/ SkeinNext({"acme"})
    \/ SetBack
    \/ \E f \in FolioIds, w \in Callers :
           create_thread("acme", f, f, "status", None, w)

\* The roster requests.
RosterNext ==
    \/ \E p \in Projects, a \in Agents, st \in {None} \cup AgentStatuses :
           register_agent(p, a, st)
    \/ \E p \in Projects, a \in Agents, st \in {None} \cup AgentStatuses :
           update_agent(p, a, st)
    \/ Tick

\* An agent of a chain registers, works and runs `skein complete`.
CompleteNext ==
    \/ \E p \in Projects, a \in Agents, st \in {None} \cup AgentStatuses :
           register_agent(p, a, st)
    \/ \E p \in Projects, a \in Agents, chain_id \in {None, "chain-7f2a"} :
           complete(p, a, chain_id)
    \/ \E ok \in BOOLEAN : store_yield(ok)
    \/ \E ok \in BOOLEAN : retire(ok)

\* Requests to every route, with and without the project header.
SurfaceNext ==
    \/ \E e \in Endpoints : request_without_project(e)
    \/ \E e \in Endpoints : request_unknown_project(e)
    \/ \E x \in Projects \cup {NoProject} : generate_name(x)
    \/ \E p \in Projects, s \in Sites : create_site(p, s)
    \/ \E p \in Projects, s \in Sites, w \in Callers :
           post_to_site(p, s, w, None, "closed", None, None)
    \/ \E p \in Projects, f \in FolioIds : get_folio(p, f)
    \/ Tick

\* ------------------------------------------------------------ shard universe

\* Sequence numbers in use for one shard name on one day.
MaxSeq == 2
\* Number of shard operations called in one explored run.
MaxCalls == 4

\* worktrees/<name>-<date>-<seq>, by sequence number.
WorktreeNames == << "fix-20251109-001", "fix-20251109-002",
                    "fix-20251109-003", "fix-20251109-004" >>
Shards == { WorktreeNames[i] : i \in 1..MaxSeq }

\* Places in the file system, besides worktrees/<shard>, which is named by the
\* shard: the project root (the main working tree), the worktrees directory, a
\* linked working tree of the same repository outside the project, and a
\* directory that has nothing to do with the repository.
Root == "root"
WorktreesDir == "worktrees"
External == "external"
Elsewhere == "elsewhere"

\* dir is location, or an ancestor of it.
Within(location, dir) ==
    \/ location = dir
    \/ dir = Root /\ location \in Shards \cup {WorktreesDir}
    \/ dir = WorktreesDir /\ location \in Shards

\* A path as the gate sees it: where it lies as written, and where it resolves
\* to ("OSError" when resolve() raises).
PathAt(literal, resolved) == [literal |-> literal, resolved |-> resolved]
\* No caller_cwd passed.
NoCwd == PathAt(None, None)

\* pathlib's Path(parts).name: "." and empty components are dropped, ".." is
\* kept, and the root alone has no name.
PathName(parts) ==
    LET kept == SelectSeq(parts, LAMBDA c : c \notin {"/", ".", ""})
    IN  IF kept = <<>> THEN "" ELSE kept[Len(kept)]

\* (worktrees_dir / worktree_name).resolve(): worktrees/esc is a symbolic link
\* to the external working tree while that one exists.
resolve(r, worktree_name) ==
    IF worktree_name = ".." THEN Root
    ELSE IF worktree_name = "esc" /\ r.external THEN External
    ELSE worktree_name

\* Path.exists() of a resolved place: r.registered are the linked working trees
\* whose directory is there, r.prunable those whose directory is gone.
exists(r, location) ==
    \/ location \in r.registered
    \/ location \in {Root, WorktreesDir}
    \/ location = External /\ r.external

\* _is_path_inside_worktree(path, worktree_path)
_is_path_inside_worktree(path, worktree_path) ==
    IF path.resolved = "OSError" THEN TRUE
    ELSE Within(path.literal, worktree_path) \/ Within(path.resolved, worktree_path)

\* The exception that leaves _is_path_inside_worktree, None when it returns:
\* up to Python 3.12 Path.resolve() raises RuntimeError on a symbolic-link loop
\* (pathlib's check_eloop), and the except clause names OSError and ValueError.
\* From Python 3.13 on the loop resolves, to the path as written.
propagates(path) == IF path.resolved = "RuntimeError" THEN "RuntimeError" ELSE None

\* Path.cwd(): raises OSError when the directory is gone.
OSError == PathAt("OSError", "OSError")
Path_cwd(c) == IF c.exists THEN PathAt(c.at, c.at) ELSE OSError

\* The two self-deletion checks of cleanup_shard and merge_shard: TRUE when the
\* operation raises ShardError.
caller_inside(c, caller_cwd, worktree_path) ==
    \/ caller_cwd # NoCwd /\ _is_path_inside_worktree(caller_cwd, worktree_path)
    \/ Path_cwd(c) # OSError /\ _is_path_inside_worktree(Path_cwd(c), worktree_path)

\* get_project_root in a fresh process: the root passed as project_root, else
\* the one found by walking up from Path.cwd(), which raises when the directory
\* is gone. TRUE when a root is found.
get_project_root(c, project_root) == project_root # None \/ c.exists

\* cleanup_shard without its check that the path stays under worktrees/.
escapes_unchecked(worktree_path) == FALSE

\* The belt-and-braces check of cleanup_shard: TRUE when
\* worktree_path.resolve().relative_to(worktrees_dir.resolve()) raises.
escapes(worktree_path) == ~Within(worktree_path, WorktreesDir)

\* An operation that raised instead of returning a repository.
ShardError == [raised |-> "ShardError"]
GitCommandError == [raised |-> "GitCommandError"]

\* git worktree remove that deletes the directory and keeps the registration.
git_worktree_remove_files(r, location) ==
    IF location \in r.registered
    THEN [r EXCEPT !.registered = @ \ {location}, !.prunable = @ \cup {location}]
    ELSE GitCommandError

\* git worktree remove [--force] <path>: git removes linked working trees only.
git_worktree_remove(r, location) ==
    IF location \in r.registered
    THEN [r EXCEPT !.registered = @ \ {location}, !.dirty = @ \ {location},
                   !.broken = @ \ {location}, !.conflicting = @ \ {location}]
    ELSE IF location = External /\ r.external THEN [r EXCEPT !.external = FALSE]
    ELSE GitCommandError

\* A commit: the branch whose tip it is and the shards merged into it so far.
Commit(on, merged) == [on |-> on, merged |-> merged]
NoCommit == Commit(None, {})

\* git rev-parse <ref>
rev_parse(r, ref) ==
    IF ref = "master" THEN Commit("master", r.master) ELSE Commit(ref, {})

\* cleanup_shard leaving the branch, as with keep_branch.
git_branch_keep(r, worktree_name, ok) == r

\* git branch -D shard-<worktree_name>; ok says whether git deleted it.
git_branch_delete(r, worktree_name, ok) ==
    IF ok /\ worktree_name \in r.branches
    THEN [r EXCEPT !.branches = @ \ {worktree_name},
                   !.start = [@ EXCEPT ![worktree_name] = NoCommit]]
    ELSE r

\* git worktree prune: forgets the working trees whose directory is gone.
git_worktree_prune(r, ok) == IF ok THEN [r EXCEPT !.prunable = {}] ELSE r

\* How git's commands can go during a cleanup: the removal of the working tree
\* (it fails even with --force when, for one, the tree is locked), the deletion
\* of the branch, the pruning.
GitCleanups == [ remove : BOOLEAN, branch : BOOLEAN, prune : BOOLEAN ]
GitWorks == [ remove |-> TRUE, branch |-> TRUE, prune |-> TRUE ]

\* cleanup_shard: the repository afterwards, or ShardError.
cleanup(r, c, worktree_name_arg, keep_branch, caller_cwd, project_root, git) ==
    LET worktree_name == PathName(worktree_name_arg)
        worktree_path == resolve(r, worktree_name)
        removed == git_worktree_remove(r, worktree_path)
    IN  IF ~get_project_root(c, project_root) THEN ShardError
        ELSE IF worktree_name = "" \/ worktree_name = WorktreesDir THEN ShardError
        ELSE IF escapes(worktree_path) THEN ShardError
        ELSE IF ~exists(r, worktree_path) THEN ShardError
        ELSE IF caller_inside(c, caller_cwd, worktree_path) THEN ShardError
        ELSE IF ~git.remove \/ removed = GitCommandError THEN ShardError
        ELSE IF keep_branch THEN git_worktree_prune(removed, git.prune)
        ELSE git_worktree_prune(git_branch_delete(removed, worktree_name, git.branch),
                                git.prune)

\* list_shards: the linked working trees git lists under worktrees/.
list_shards(r) == r.registered \cup r.prunable

\* get_shard_status: the listed shard the argument names, or None.
get_shard_status(r, worktree_name_arg) ==
    IF PathName(worktree_name_arg) \in list_shards(r)
    THEN PathName(worktree_name_arg) ELSE None

MIN_GIT_VERSION == <<2, 38>>

\* Python's tuple comparison a < b.
RECURSIVE TupleLess(_, _)
TupleLess(a, b) ==
    IF b = <<>> THEN FALSE
    ELSE IF a = <<>> THEN TRUE
    ELSE IF Head(a) # Head(b) THEN Head(a) < Head(b)
    ELSE TupleLess(Tail(a), Tail(b))

\* _check_git_version_for_merge_tree: TRUE when it raises.
git_too_old(version) == TupleLess(version, MIN_GIT_VERSION)

\* get_shard_git_info: the two fields merge_shard reads. tree_ok says whether
\* git merge-base and git merge-tree ran.
get_shard_git_info(r, version, shard, tree_ok) ==
    [ working_tree |-> IF shard \in r.broken \cup r.prunable THEN "unknown"
                       ELSE IF shard \in r.dirty THEN "dirty" ELSE "clean",
      merge_status |-> IF git_too_old(version) \/ ~tree_ok THEN "unknown"
                       ELSE IF shard \in r.conflicting THEN "conflict" ELSE "clean" ]

NoInfo == [working_tree |-> None, merge_status |-> None]

\* What git and list_shards show of a repository: the shards listed, the
\* shard branches, the linked working trees git knows.
Snapshot(r) ==
    [ list_shards |-> list_shards(r), branches |-> r.branches,
      worktrees |-> list_shards(r) \cup (IF r.external THEN {External} ELSE {}) ]
NoSnapshot == [ list_shards |-> {}, branches |-> {}, worktrees |-> {} ]

\* What a shard operation did, for the caller and for the properties below.
Result(op, arg, caller_cwd, outcome, info, did) ==
    [ op |-> op, arg |-> arg, caller_cwd |-> caller_cwd, outcome |-> outcome,
      working_tree |-> info.working_tree, merge_status |-> info.merge_status,
      checked_out |-> "checked_out" \in did, merged |-> "merged" \in did,
      abort_failed |-> "abort_failed" \in did,
      restore_failed |-> "restore_failed" \in did,
      cleaned |-> "cleaned" \in did,
      branch_failed |-> "branch_failed" \in did,
      worktree_name |-> None, before |-> NoSnapshot ]

\* What spawn_shard returned: the name of the working tree it made, beside what
\* the repository showed when it was called.
Spawned(worktree_name, before) ==
    [ Result("spawn", <<>>, NoCwd, "ok", NoInfo, {})
        EXCEPT !.worktree_name = worktree_name, !.before = before ]

\* What the caller of a spawn keeps for the call it makes next: the name
\* spawned and what the repository showed before.
RoundTrip(r) ==
    IF result.op = "spawn" /\ result.outcome = "ok"
    THEN [r EXCEPT !.worktree_name = result.worktree_name, !.before = result.before]
    ELSE r

NoResult == Result("none", <<>>, NoCwd, "ok", NoInfo, {})

Called(r) ==
    /\ calls < MaxCalls
    /\ calls' = calls + 1
    /\ result' = r
    /\ UNCHANGED <<git_version, cwd, grafts, spawning, args, returned, yields, completing, disk>>
    /\ UNCHANGED skeinVars

\* ------------------------------------------------------------ shard names

MAX_SHARD_NAME_LENGTH == 63

\* A name is the list of its characters.
Letters == <<"a", "b", "c", "d", "e", "f", "g", "h", "i", "j", "k", "l", "m", "n", "o", "p", "q", "r", "s", "t", "u", "v", "w", "x", "y", "z">>
Capitals == <<"A", "B", "C", "D", "E", "F", "G", "H", "I", "J", "K", "L", "M", "N", "O", "P", "Q", "R", "S", "T", "U", "V", "W", "X", "Y", "Z">>
Alnum ==
    { Letters[k] : k \in 1..26 } \cup { Capitals[k] : k \in 1..26 }
    \cup {"0", "1", "2", "3", "4", "5", "6", "7", "8", "9"}

\* str.lower() on the ASCII letters.
lower(name) ==
    [ i \in DOMAIN name |->
        IF \E k \in 1..26 : Capitals[k] = name[i]
        THEN Letters[CHOOSE k \in 1..26 : Capitals[k] = name[i]]
        ELSE name[i] ]

RESERVED_NAMES ==
    { <<"h", "e", "a", "d">>,
      <<"H", "E", "A", "D">>,
      <<"m", "a", "s", "t", "e", "r">>,
      <<"m", "a", "i", "n">>,
      <<"r", "e", "f", "s">>,
      <<"o", "b", "j", "e", "c", "t", "s">>,
      <<"h", "o", "o", "k", "s">>,
      <<"i", "n", "f", "o">>,
      <<"l", "o", "g", "s">>,
      <<"w", "o", "r", "k", "t", "r", "e", "e", "s">> }

\* VALID_NAME_PATTERN.match(name): ^[a-zA-Z0-9][a-zA-Z0-9_-]*$, where Python's $
\* also matches before a newline that ends the string.
VALID_NAME_PATTERN(name) ==
    LET body == IF Len(name) > 1 /\ name[Len(name)] = "\n"
                THEN SubSeq(name, 1, Len(name) - 1) ELSE name
    IN  /\ body # <<>>
        /\ body[1] \in Alnum
        /\ \A i \in 2..Len(body) : body[i] \in Alnum \cup {"_", "-"}

\* A validator that lets every name through.
validate_any_name(name) == TRUE

\* validate_shard_name: TRUE for (True, None).
validate_shard_name(name) ==
    LET in(sub) == \E i \in 1..(Len(name) - Len(sub) + 1) :
                       SubSeq(name, i, i + Len(sub) - 1) = sub
        startswith(sub) == Len(name) >= Len(sub) /\ SubSeq(name, 1, Len(sub)) = sub
        endswith(sub) ==
            /\ Len(name) >= Len(sub)
            /\ SubSeq(name, Len(name) - Len(sub) + 1, Len(name)) = sub
    IN  /\ name # <<>>
        /\ \E i \in DOMAIN name : name[i] \notin {" ", "\t", "\n"}
        /\ Len(name) <= MAX_SHARD_NAME_LENGTH
        /\ ~in(<<".", ".">>)
        /\ ~endswith(<<".", "l", "o", "c", "k">>)
        /\ ~in(<<"@", "{">>)
        /\ ~startswith(<<".">>)
        /\ ~startswith(<<"-">>)
        /\ lower(name) \notin { lower(n) : n \in RESERVED_NAMES }
        /\ VALID_NAME_PATTERN(name)

\* git check-ref-format on shard-<name>-<date>-<seq>, for a name the validator
\* let through: git takes no branch name with a control character.
check_ref_format(name) == \A i \in DOMAIN name : name[i] # "\n"

\* The name the model spawns shards with where the name does not matter.
Fix == <<"f", "i", "x">>

\* The names the model passes to spawn_shard.
ShardNames ==
    { <<"f", "i", "x">>,
      <<"a", "_", "1", "-", "b">>,
      <<"H", "e", "a", "d", "e", "r">>,
      <<>>,
      <<" ", "	">>,
      [i \in 1..(MAX_SHARD_NAME_LENGTH + 1) |-> "a"],
      <<"a", ".", ".", "b">>,
      <<"x", ".", "l", "o", "c", "k">>,
      <<"a", "@", "{", "b">>,
      <<".", "x">>,
      <<"-", "x">>,
      <<"H", "e", "a", "d">>,
      <<"M", "A", "S", "T", "E", "R">>,
      <<"w", "o", "r", "k", "t", "r", "e", "e", "s">>,
      <<"a", " ", "b">>,
      <<"a", "/", "b">>,
      <<"f", "i", "x", "\n">>,
      [i \in 1..MAX_SHARD_NAME_LENGTH |-> "a"] }

\* ---------------------------------------------------------- shard operations

\* _get_next_sequence: one more than the largest sequence number in worktrees/.
_get_next_sequence(r) ==
    LET sequences == { i \in 1..Len(WorktreeNames) : WorktreeNames[i] \in r.registered }
    IN  IF sequences = {} THEN 1
        ELSE (CHOOSE i \in sequences : \A j \in sequences : j <= i) + 1

\* git worktree add --force -B: takes the path and the branch whoever has them.
git_worktree_add_force(r, worktree_name) ==
    [r EXCEPT !.registered = @ \cup {worktree_name},
              !.branches = @ \cup {worktree_name},
              !.start = [@ EXCEPT ![worktree_name] = rev_parse(r, r.head)]]

\* git worktree add <worktrees/worktree_name> -b shard-<worktree_name>: the new
\* branch starts at HEAD, no start point being given. GitCommandError when the
\* branch exists or git still knows a working tree at that path.
git_worktree_add(r, worktree_name) ==
    IF worktree_name \in r.branches \cup list_shards(r) THEN GitCommandError
    ELSE [r EXCEPT !.registered = @ \cup {worktree_name},
                   !.branches = @ \cup {worktree_name},
                   !.start = [@ EXCEPT ![worktree_name] = rev_parse(r, r.head)]]

\* _record_shard_metadata: INSERT OR REPLACE of the shard's row in shards.db,
\* with the status 'active'. (Nothing calls _update_shard_status, the one
\* function that writes another status, and nothing deletes a row.)
_record_shard_metadata(r, worktree_name, base_commit) ==
    [r EXCEPT !.meta = [@ EXCEPT ![worktree_name] = base_commit],
              !.status = [@ EXCEPT ![worktree_name] = "active"]]

\* spawn_shard
spawn_shard(name, project_root) ==
    LET seq == _get_next_sequence(repo)
        worktree_name == WorktreeNames[seq]
        base_commit == rev_parse(repo, "master")
        added == IF check_ref_format(name) THEN git_worktree_add(repo, worktree_name)
                 ELSE GitCommandError
    IN  /\ seq <= MaxSeq
        /\ IF \/ ~validate_shard_name(name)
              \/ ~get_project_root(cwd, project_root)
              \/ exists(repo, worktree_name)
              \/ added = GitCommandError
           THEN /\ Called(Result("spawn", name, NoCwd, "raised", NoInfo, {}))
                /\ repo' = repo
           ELSE /\ Called([Spawned(worktree_name, Snapshot(repo)) EXCEPT !.arg = name])
                /\ repo' = [_record_shard_metadata(added, worktree_name, base_commit)
                               EXCEPT !.name = [@ EXCEPT ![worktree_name] = name]]

\* ------------------------------------------------ spawn_shard, step by step

\* Processes (or threads) calling spawn_shard with one name at the same time.
MaxProcs == 3
Procs == 1..MaxProcs

\* A call of spawn_shard: where it is, the sequence number it computed and the
\* base_commit it read.
Spawning(pc, seq, base_commit) == [pc |-> pc, seq |-> seq, base_commit |-> base_commit]
NotCalled == Spawning("not called", 0, NoCommit)

\* The steps of one call keep everything but the repository and the call.
Steps(p, call) ==
    /\ spawning' = [spawning EXCEPT ![p] = call]
    /\ UNCHANGED <<git_version, cwd, calls, result, grafts, args, returned, yields, completing, disk>>
    /\ UNCHANGED skeinVars

\* seq = _get_next_sequence(name, date): the scan of worktrees/.
scan(p) ==
    /\ spawning[p].pc = "not called"
    /\ _get_next_sequence(repo) <= MaxSeq
    /\ Steps(p, Spawning("scanned", _get_next_sequence(repo), NoCommit))
    /\ repo' = repo

\* if worktree_path.exists(): raise ShardError
check_exists(p) ==
    /\ spawning[p].pc = "scanned"
    /\ Steps(p, IF exists(repo, WorktreeNames[spawning[p].seq])
                THEN [spawning[p] EXCEPT !.pc = "raised"]
                ELSE [spawning[p] EXCEPT !.pc = "checked"])
    /\ repo' = repo

\* base_commit = rev_parse("master"); git worktree add ... -b ...: git takes
\* the branch for one caller only, the other gets a GitCommandError, which
\* spawn_shard raises as ShardError.
worktree_add(p) ==
    LET added == git_worktree_add(repo, WorktreeNames[spawning[p].seq])
    IN  /\ spawning[p].pc = "checked"
        /\ IF added = GitCommandError
           THEN /\ Steps(p, [spawning[p] EXCEPT !.pc = "raised"])
                /\ repo' = repo
           ELSE /\ Steps(p, [spawning[p] EXCEPT !.pc = "added",
                                                !.base_commit = rev_parse(repo, "master")])
                /\ repo' = added

\* _record_shard_metadata(...) and the return; the write to shards.db is taken
\* to go through (sqlite serialises the writers).
record_metadata(p) ==
    /\ spawning[p].pc = "added"
    /\ Steps(p, [spawning[p] EXCEPT !.pc = "returned"])
    /\ repo' = _record_shard_metadata(repo, WorktreeNames[spawning[p].seq],
                                      spawning[p].base_commit)

SpawnNext ==
    \E p \in Procs : scan(p) \/ check_exists(p) \/ worktree_add(p) \/ record_metadata(p)

\* cleanup_shard(worktree_name, keep_branch, caller_cwd)
cleanup_shard(worktree_name, keep_branch, caller_cwd, project_root) ==
    \E git \in IF cleanup(repo, cwd, worktree_name, keep_branch, caller_cwd,
                           project_root, GitWorks) = ShardError
                THEN {GitWorks}
                ELSE { g \in GitCleanups : /\ keep_branch => g.branch
                                           /\ ~g.remove => g.branch /\ g.prune } :
        LET after == cleanup(repo, cwd, worktree_name, keep_branch, caller_cwd,
                             project_root, git)
        IN  IF after = ShardError
            THEN /\ Called(Result("cleanup", worktree_name, caller_cwd, "raised",
                                  NoInfo, {}))
                 /\ repo' = repo
            ELSE /\ Called(RoundTrip(
                            Result("cleanup", worktree_name, caller_cwd, "ok", NoInfo,
                                   {"cleaned"} \cup (IF git.branch THEN {}
                                                     ELSE {"branch_failed"}))))
                 /\ repo' = after

\* merge_shard refusing a known conflict only, as it did before "unknown"
\* was made to refuse.
refuses_conflict_only(git_info) ==
    git_info.working_tree = "dirty" \/ git_info.merge_status = "conflict"

\* merge_shard without its finally clause.
restore_never(r, original_ref, merge_succeeded, ok) == r

\* The checks of merge_shard on what get_shard_git_info found: TRUE when it
\* returns success=false.
refuses(git_info) ==
    git_info.working_tree = "dirty" \/ git_info.merge_status # "clean"

\* The finally clause of merge_shard: git checkout <original_ref> unless the
\* merge succeeded; ok says whether the checkout worked.
restore(r, original_ref, merge_succeeded, ok) ==
    IF ~merge_succeeded /\ ok THEN [r EXCEPT !.head = original_ref] ELSE r

\* The merge itself, from recording the original reference on: the repository
\* afterwards and what was done, given how the git commands went.
perform_merge(r, c, worktree_name, caller_cwd, shard, git) ==
    LET original_ref == r.head
        on_master == [r EXCEPT !.head = "master"]
    IN  IF ~git.checkout \/ r.merge_in_progress
        THEN [repo |-> restore(r, original_ref, FALSE, git.restore),
              outcome |-> "raised", did |-> {}]
        ELSE IF git.merge = "merged"
        THEN LET merged == restore([on_master EXCEPT !.master = @ \cup {shard}],
                                   original_ref, TRUE, git.restore)
                 after == cleanup(merged, c, worktree_name, FALSE, caller_cwd, Root,
                                  [remove |-> git.remove, branch |-> git.branch,
                                   prune |-> git.prune])
             IN  IF after = ShardError
                 THEN [repo |-> merged, outcome |-> "ok",
                       did |-> {"checked_out", "merged"}]
                 ELSE [repo |-> after, outcome |-> "ok",
                       did |-> {"checked_out", "merged", "cleaned"}
                               \cup (IF git.branch THEN {} ELSE {"branch_failed"})]
        ELSE LET unmerged == git.merge = "conflicted" /\ ~git.abort
                 restored == git.restore /\ ~unmerged
             IN  [repo |-> restore([on_master EXCEPT !.merge_in_progress = unmerged],
                                   original_ref, FALSE, restored),
                  outcome |-> "raised",
                  did |-> {"checked_out"}
                          \cup (IF unmerged THEN {"abort_failed"} ELSE {})
                          \cup (IF restored THEN {} ELSE {"restore_failed"})]

\* How git's commands can go during a merge: the checkout of master, the merge
\* (done, refused before it started, or stopped on conflicts), the abort, the
\* checkout back, and the commands of the cleanup. A command that is not
\* reached is listed as working.
GitRuns ==
    { g \in [ checkout : BOOLEAN, merge : {"merged", "refused", "conflicted"},
              abort : BOOLEAN, restore : BOOLEAN,
              remove : BOOLEAN, branch : BOOLEAN, prune : BOOLEAN ] :
        /\ ~g.checkout => g.merge = "refused" /\ g.restore
        /\ g.merge # "conflicted" => g.abort
        /\ g.merge = "merged" => g.restore
        /\ g.merge # "merged" => g.remove /\ g.branch /\ g.prune
        /\ ~g.remove => g.branch /\ g.prune }

\* merge_shard(worktree_name, caller_cwd)
merge_shard(worktree_name, caller_cwd, project_root) ==
    LET shard == get_shard_status(repo, worktree_name)
    IN  IF \/ ~get_project_root(cwd, project_root)
           \/ shard = None
           \/ caller_inside(cwd, caller_cwd, shard)
        THEN /\ Called(Result("merge", worktree_name, caller_cwd, "raised", NoInfo, {}))
             /\ repo' = repo
        ELSE \E tree_ok \in BOOLEAN :
             LET git_info == get_shard_git_info(repo, git_version, shard, tree_ok)
             IN  IF refuses(git_info)
                 THEN /\ Called(Result("merge", worktree_name, caller_cwd, "false",
                                       git_info, {}))
                      /\ repo' = repo
                 ELSE \E git \in GitRuns :
                      LET m == perform_merge(repo, cwd, worktree_name, caller_cwd,
                                             shard, git)
                      IN  /\ Called(Result("merge", worktree_name, caller_cwd,
                                           m.outcome, git_info, m.did))
                          /\ repo' = m.repo

\* ----------------------------------------------------------------- grafting

\* Commits on one shard branch in one explored run.
MaxCommits == 2

\* What git cherry-pick does with a commit on top of master: it applies, or
\* stops on a conflict that git status --porcelain shows as UU (both
\* modified), AA (both added) or UD (modified here, deleted by the commit),
\* or fails for another reason (the commit is empty on master).
Conflicts == {"UU", "AA", "UD"}
CherryPicks == {"applied", "empty"} \cup Conflicts

\* worktrees/<worktree_name>-graft: whether it is there, how many commits
\* were picked into it, whether a cherry-pick has stopped in it, and the
\* conflict_files returned (each commit changes one file, named by its place).
NoGraft == [exists |-> FALSE, picked |-> 0, stopped |-> FALSE, conflict_files |-> {}]

\* The status lines graft_shard collects after a cherry-pick stopped on commits[i].
conflicted(commits, i) == IF commits[i] \in {"UU", "AA"} THEN {i} ELSE {}

\* The cherry-pick loop of graft_shard from commits[i] on, g being the graft
\* so far.
RECURSIVE cherry_pick(_, _, _)
cherry_pick(commits, i, g) ==
    IF i > Len(commits) THEN [graft |-> g, raised |-> FALSE]
    ELSE IF commits[i] = "applied"
    THEN cherry_pick(commits, i + 1, [g EXCEPT !.picked = i])
    ELSE IF commits[i] \in Conflicts
    THEN [graft |-> [g EXCEPT !.stopped = TRUE,
                              !.conflict_files = conflicted(commits, i)],
          raised |-> FALSE]
    ELSE [graft |-> g, raised |-> TRUE]

\* git rev-list --reverse <base_commit>..shard-<shard>
rev_list(g, base_commit, shard) == g[shard].commits

\* graft_shard(worktree_name)
graft_shard(worktree_name, project_root) ==
    LET shard == get_shard_status(repo, worktree_name)
        commits == rev_list(grafts, repo.meta[shard], shard)
        p == cherry_pick(commits, 1, [NoGraft EXCEPT !.exists = TRUE])
    IN  /\ calls < MaxCalls
        /\ calls' = calls + 1
        /\ UNCHANGED <<repo, git_version, cwd, spawning, args, returned, yields, completing, disk>>
        /\ UNCHANGED skeinVars
        /\ IF \/ ~get_project_root(cwd, project_root)
              \/ shard = None
              \/ grafts[shard].graft.exists
              \/ commits = <<>>
           THEN /\ result' = Result("graft", worktree_name, NoCwd, "raised", NoInfo, {})
                /\ grafts' = grafts
           ELSE /\ result' = Result("graft", worktree_name, NoCwd,
                                    IF p.raised THEN "raised"
                                    ELSE IF p.graft.conflict_files = {} THEN "ok"
                                    ELSE "false", NoInfo, {})
                /\ grafts' = [grafts EXCEPT ![shard].graft = p.graft]

\* An agent commits in its working tree.
commit(shard, kind) ==
    /\ shard \in repo.registered
    /\ ~grafts[shard].graft.exists
    /\ Len(grafts[shard].commits) < MaxCommits
    /\ calls < MaxCalls
    /\ calls' = calls + 1
    /\ result' = NoResult
    /\ grafts' = [grafts EXCEPT ![shard].commits = Append(@, kind)]
    /\ UNCHANGED <<repo, git_version, cwd, spawning, args, returned, yields, completing, disk>>
    /\ UNCHANGED skeinVars

\* ------------------------------------------------- what else happens to a repo

Happens ==
    /\ calls < MaxCalls
    /\ calls' = calls + 1
    /\ result' = NoResult
    /\ UNCHANGED <<git_version, grafts, spawning, args, returned, yields, completing, disk>>
    /\ UNCHANGED skeinVars

\* An agent edits a file in its working tree and leaves it uncommitted.
edit(shard) ==
    /\ shard \in repo.registered
    /\ repo' = [repo EXCEPT !.dirty = @ \cup {shard}]
    /\ Happens /\ UNCHANGED cwd

\* The working tree's .git link is damaged: git status fails in it.
damage(shard) ==
    /\ shard \in repo.registered
    /\ repo' = [repo EXCEPT !.broken = @ \cup {shard}]
    /\ Happens /\ UNCHANGED cwd

\* The shard branch and master both change the same lines.
diverge(shard) ==
    /\ shard \in repo.registered
    /\ repo' = [repo EXCEPT !.conflicting = @ \cup {shard}]
    /\ Happens /\ UNCHANGED cwd

\* The directory of a working tree is deleted behind git's back: git still
\* lists the working tree, as prunable.
rm_rf(shard) ==
    /\ shard \in repo.registered /\ cwd.at # shard
    /\ repo' = [repo EXCEPT !.registered = @ \ {shard}, !.prunable = @ \cup {shard},
                            !.dirty = @ \ {shard}, !.broken = @ \ {shard}]
    /\ Happens /\ UNCHANGED cwd

\* A shard of an earlier day, whose directory was deleted since: its branch
\* was deleted by hand, git still lists its working tree.
Leftover == "fix-20251108-001"
leftover ==
    /\ Leftover \notin repo.prunable
    /\ repo' = [repo EXCEPT !.prunable = @ \cup {Leftover}]
    /\ Happens /\ UNCHANGED cwd

\* Somebody adds a working tree outside the project and links it as worktrees/esc.
link_external ==
    /\ ~repo.external
    /\ repo' = [repo EXCEPT !.external = TRUE]
    /\ Happens /\ UNCHANGED cwd

\* The main working tree is switched to another branch.
checkout(ref) ==
    /\ ref # repo.head /\ ~repo.merge_in_progress
    /\ repo' = [repo EXCEPT !.head = ref]
    /\ Happens /\ UNCHANGED cwd

\* The calling process changes directory.
chdir(location) ==
    /\ exists(repo, location)
    /\ cwd' = [at |-> location, exists |-> TRUE]
    /\ cwd' # cwd
    /\ Happens /\ UNCHANGED repo

\* The directory the process is in (a subdirectory of a working tree) is deleted.
rmdir_cwd ==
    /\ cwd.at \in repo.registered /\ cwd.exists
    /\ cwd' = [cwd EXCEPT !.exists = FALSE]
    /\ Happens /\ UNCHANGED repo

\* ------------------------------------------------------------ specification

GitVersions == {<<2, 37, 4>>, <<2, 38>>}

ShardInit ==
    /\ repo = [ registered |-> {}, prunable |-> {}, branches |-> {}, dirty |-> {},
                broken |-> {}, conflicting |-> {}, external |-> FALSE,
                head |-> "master", master |-> {}, merge_in_progress |-> FALSE,
                start |-> [w \in Shards |-> NoCommit],
                meta |-> [w \in Shards |-> NoCommit],
                status |-> [w \in Shards |-> None],
                name |-> [w \in Shards |-> <<>>] ]
    /\ git_version \in GitVersions
    /\ cwd = [at |-> Root, exists |-> TRUE]
    /\ calls = 0
    /\ result = NoResult
    /\ grafts = [w \in Shards |-> [commits |-> <<>>, graft |-> NoGraft]]
    /\ spawning = [p \in Procs |-> NotCalled]
    /\ yields = {}
    /\ completing = NotCompleting
    /\ disk = NoDisk

\* The arguments the model passes as worktree_name, as path components.
NameArgs ==
    { <<w>> : w \in Shards }
    \cup { <<"/", "srv", "repo", "worktrees", WorktreeNames[1]>>,
           <<WorktreeNames[1], "..">>, <<"worktrees">>, <<>>, <<"esc">> }

\* The arguments the model passes to merge_shard.
MergeArgs ==
    { <<w>> : w \in Shards } \cup { <<"/", "srv", "repo", "worktrees", WorktreeNames[1]>> }

\* The values the model passes as caller_cwd.
CallerCwds ==
    { NoCwd, PathAt(Root, Root), PathAt(WorktreeNames[1], WorktreeNames[1]),
      PathAt(Elsewhere, WorktreeNames[1]), PathAt(Elsewhere, "OSError") }

\* The values the model passes as project_root: passing the root changes
\* nothing unless the root cannot be found from the working directory.
ProjectRoots == IF cwd.exists THEN {None} ELSE {None, Root}

\* The values the model passes as caller_cwd and keep_branch to a call that
\* gets to look at them: one value when the call raises before.
CleanupCwds(a, root) ==
    IF \/ ~get_project_root(cwd, root)
       \/ cleanup(repo, [at |-> Elsewhere, exists |-> TRUE], a, TRUE, NoCwd, root,
                  GitWorks) = ShardError
    THEN {NoCwd} ELSE CallerCwds
KeepBranches(a, c, root) ==
    IF cleanup(repo, cwd, a, TRUE, c, root, GitWorks) = ShardError
    THEN {FALSE} ELSE BOOLEAN
MergeCwds(a, root) ==
    IF get_shard_status(repo, a) = None THEN {NoCwd} ELSE CallerCwds

ShardNext ==
    \/ \E root \in ProjectRoots : spawn_shard(Fix, root)
    \/ \E a \in NameArgs, root \in ProjectRoots :
           \E c \in CleanupCwds(a, root) :
               \E k \in KeepBranches(a, c, root) : cleanup_shard(a, k, c, root)
    \/ \E a \in MergeArgs, root \in ProjectRoots :
           \E c \in MergeCwds(a, root) : merge_shard(a, c, root)
    \/ \E w \in Shards : edit(w)
    \/ \E w \in Shards : damage(w)
    \/ \E w \in Shards : diverge(w)
    \/ \E w \in Shards : rm_rf(w)
    \/ leftover
    \/ link_external
    \/ \E ref \in {"master", "feature"} : checkout(ref)
    \/ \E l \in {Root} \cup Shards : chdir(l)
    \/ rmdir_cwd

\* Shards are spawned under all sorts of names, and cleaned up.
NamesNext ==
    \/ \E name \in ShardNames, root \in ProjectRoots : spawn_shard(name, root)
    \/ \E w \in Shards, k \in BOOLEAN : cleanup_shard(<<w>>, k, NoCwd, None)

GraftNext ==
    \/ \E root \in ProjectRoots : spawn_shard(Fix, root)
    \/ \E w \in Shards, kind \in CherryPicks : commit(w, kind)
    \/ \E a \in MergeArgs, root \in ProjectRoots : graft_shard(a, root)

\* A server starting, beside a repository nobody touches.
ServerInit ==
    SkeinInit /\ ShardInit /\ git_version = <<2, 38>> /\ args = <<>> /\ returned = <<>>

\* A repository without shards, beside a server nobody calls.
RepoInit ==
    /\ ShardInit /\ SkeinInit /\ sites = [p \in Projects |-> {}]
    /\ args = <<>> /\ returned = <<>>

\* The server process with all its tenants.
Spec == ServerInit /\ [][SkeinNext(Projects)]_vars

\* The server process serving a single project.
SpecOneProject == ServerInit /\ [][OneProjectNext]_vars

\* A repository in which shards are spawned under all sorts of names.
SpecNames == RepoInit /\ [][NamesNext]_vars

\* The agent roster of the server.
SpecRoster == ServerInit /\ [][RosterNext]_vars

\* The roster and the sack of a server, with an agent completing.
SpecComplete == ServerInit /\ [][CompleteNext]_vars

\* The HTTP surface.
SpecSurface == ServerInit /\ [][SurfaceNext]_vars

\* One record file, its writer and a reader in another process.
SpecDisk == ServerInit /\ [][DiskNext]_vars

\* The shard operations on one repository.
SpecShard == RepoInit /\ [][ShardNext]_vars

\* Processes calling spawn_shard at the same time, with one name.
SpecSpawn == RepoInit /\ [][SpawnNext]_vars

\* Shards, the commits made in them, and their grafts.
SpecGraft == RepoInit /\ [][GraftNext]_vars

\* ------------------------------------------------- functions on their own

\* Grafts of grafts: <name>-graft-...-graft, MaxDepth suffixes at most.
MaxDepth == 3

\* A worktree name, as the name spawn_shard made followed by its -graft
\* suffixes.
GraftNames ==
    { <<WorktreeNames[1]>> \o [i \in 1..d |-> "-graft"] : d \in 0..MaxDepth }

\* SELECT parent_worktree FROM shards WHERE worktree_name = ?, table being the
\* names that have a row: spawn_shard writes the row without a parent,
\* graft_shard with the source as parent. None when there is no row or no
\* parent.
parent_worktree(table, worktree_name) ==
    IF worktree_name \in table /\ Len(worktree_name) > 1
    THEN SubSeq(worktree_name, 1, Len(worktree_name) - 1)
    ELSE None

\* The loops of get_graft_chain_root: up the parents from current, and down
\* the -graft suffixes of name.
RECURSIVE follow_parents(_, _, _)
follow_parents(table, current, visited) ==
    IF current = <<>> \/ current \in visited THEN current
    ELSE IF parent_worktree(table, current) # None
    THEN follow_parents(table, parent_worktree(table, current), visited \cup {current})
    ELSE current
RECURSIVE strip_grafts(_)
strip_grafts(name) ==
    IF name # <<>> /\ name[Len(name)] = "-graft"
    THEN strip_grafts(SubSeq(name, 1, Len(name) - 1))
    ELSE name

\* get_graft_chain_root(worktree_name)
get_graft_chain_root(table, worktree_name) ==
    LET current == follow_parents(table, worktree_name, {})
    IN  IF current # <<>> THEN current ELSE strip_grafts(worktree_name)

\* The loop of get_graft_chain: down the children from current, by the row
\* that names current as its parent, else by the directory current-graft.
RECURSIVE follow_children(_, _, _)
follow_children(table, worktrees, current) ==
    LET here == IF current \in worktrees THEN <<current>> ELSE <<>>
        next_graft == current \o <<"-graft">>
    IN  IF next_graft \in table \/ next_graft \in worktrees
        THEN here \o follow_children(table, worktrees, next_graft)
        ELSE here

\* get_graft_chain(worktree_name): the worktrees of the chain that exist, from
\* the root down.
get_graft_chain(table, worktrees, worktree_name) ==
    follow_children(table, worktrees, get_graft_chain_root(table, worktree_name))

\* The loop of cleanup_graft_chain over the worktrees left to clean.
\* cleanup_shard raises ShardError for the worktree the caller stands in and
\* for one git worktree remove fails on (a locked one), and removes any other.
RECURSIVE cleanup_each(_, _, _, _)
cleanup_each(r, todo, caller_cwd, out) ==
    IF todo = <<>> THEN out
    ELSE cleanup_each(r, Tail(todo), caller_cwd,
             IF Head(todo) = caller_cwd \/ Head(todo) \in r.locked
             THEN [out EXCEPT !.errors = Append(@, Head(todo))]
             ELSE [out EXCEPT !.removed = Append(@, Head(todo)),
                              !.worktrees = @ \ {Head(todo)}])

\* The loop that stops at the first worktree it cannot remove.
cleanup_graft_chain_stopping(r, worktree_name, caller_cwd) ==
    LET root == get_graft_chain_root(r.table, worktree_name)
        chain == get_graft_chain(r.table, r.worktrees, root)
        reversed == [i \in 1..Len(chain) |-> chain[Len(chain) + 1 - i]]
        fails == {i \in 1..Len(chain) :
                     reversed[i] = caller_cwd \/ reversed[i] \in r.locked}
        first == IF fails = {} THEN Len(chain)
                 ELSE CHOOSE i \in fails : \A j \in fails : i <= j
        out == cleanup_each(r, SubSeq(reversed, 1, first), caller_cwd,
                            [removed |-> <<>>, errors |-> <<>>,
                             worktrees |-> r.worktrees])
    IN  IF chain = <<>> THEN ShardError
        ELSE [success |-> out.errors = <<>>, removed |-> out.removed,
              errors |-> out.errors, chain_root |-> root,
              worktrees |-> out.worktrees]

\* cleanup_graft_chain(worktree_name, keep_branch, caller_cwd): what it
\* returns, with the worktrees that exist afterwards.
cleanup_graft_chain(r, worktree_name, caller_cwd) ==
    LET root == get_graft_chain_root(r.table, worktree_name)
        chain == get_graft_chain(r.table, r.worktrees, root)
        reversed == [i \in 1..Len(chain) |-> chain[Len(chain) + 1 - i]]
        out == cleanup_each(r, reversed, caller_cwd,
                            [removed |-> <<>>, errors |-> <<>>,
                             worktrees |-> r.worktrees])
    IN  IF chain = <<>> THEN ShardError
        ELSE [success |-> out.errors = <<>>, removed |-> out.removed,
              errors |-> out.errors, chain_root |-> root,
              worktrees |-> out.worktrees]

\* Threads in one conversation: a message and the replies to replies to it.
MaxChain == 7
ChainIds == << "thread-c001", "thread-c002", "thread-c003", "thread-c004",
               "thread-c005", "thread-c006", "thread-c007", "thread-c008",
               "thread-c009" >>

\* A conversation of n threads: the first is sent to alice or woven by her,
\* each other one replies to the one before, naming it as its to_id (skein
\* reply) or as its from_id (thread chaining).
Conversation(n, first, link) ==
    [ i \in 1..n |->
        [ thread_id |-> ChainIds[i],
          from_id |-> IF i > 1 /\ link = "from_id" THEN ChainIds[i - 1] ELSE "issue-a7b3",
          to_id |-> IF i = 1 THEN (IF first = "to_id" THEN "alice" ELSE "bob")
                    ELSE IF link = "to_id" THEN ChainIds[i - 1] ELSE "issue-a7b3",
          weaver |-> IF i = 1 /\ first = "weaver" THEN "alice" ELSE "bob" ] ]

\* The orders in which get_threads() lists the thread files of a
\* conversation: the order the directory gives, here any rotation of the
\* conversation, oldest first or newest first.
Listings(conversation) ==
    LET n == Len(conversation)
    IN  { [ k \in 1..n |-> conversation[IF newest_first
                                        THEN n - ((k - 1 + r) % n)
                                        ELSE ((k - 1 + r) % n) + 1] ] :
            r \in 0..(n - 1), newest_first \in BOOLEAN }

max_depth == 5

\* One pass of get_inbox over all_threads from the i-th on: the thread ids in
\* thread_map afterwards.
RECURSIVE reply_layer(_, _, _)
reply_layer(all_threads, i, involved_thread_ids) ==
    IF i > Len(all_threads) THEN involved_thread_ids
    ELSE IF /\ all_threads[i].thread_id \notin involved_thread_ids
            /\ \/ all_threads[i].from_id \in involved_thread_ids
               \/ all_threads[i].to_id \in involved_thread_ids
    THEN reply_layer(all_threads, i + 1,
                     involved_thread_ids \cup {all_threads[i].thread_id})
    ELSE reply_layer(all_threads, i + 1, involved_thread_ids)

\* The passes of get_inbox, depth of them left.
RECURSIVE reply_layers(_, _, _)
reply_layers(all_threads, involved_thread_ids, depth) ==
    IF depth = 0 \/ reply_layer(all_threads, 1, involved_thread_ids) = involved_thread_ids
    THEN involved_thread_ids
    ELSE reply_layers(all_threads, reply_layer(all_threads, 1, involved_thread_ids),
                      depth - 1)

\* JSONStore.get_inbox(agent_id): the ids of the threads returned.
get_inbox(all_threads, agent_id) ==
    reply_layers(all_threads,
                 { all_threads[i].thread_id : i \in { j \in DOMAIN all_threads :
                     \/ all_threads[j].to_id = agent_id
                     \/ all_threads[j].weaver = agent_id } },
                 max_depth)

\* The calls the model makes of functions on their own.
\* AgentInfo, a roster entry as agents.json keeps it: metadata is a set of
\* <<key, value>> pairs, capabilities a list.
AgentInfo(agent_id, description, registered_at, capabilities, status, metadata) ==
    [agent_id |-> agent_id, description |-> description,
     registered_at |-> registered_at, capabilities |-> capabilities,
     status |-> status, metadata |-> metadata]

\* JSONStore.save_agent's search: the index of the entry of agent_id, 0 for None.
existing_idx(agents, agent_id) ==
    IF \E i \in DOMAIN agents : agents[i].agent_id = agent_id
    THEN CHOOSE i \in DOMAIN agents :
             /\ agents[i].agent_id = agent_id
             /\ \A j \in DOMAIN agents : agents[j].agent_id = agent_id => i <= j
    ELSE 0

\* register_agent on the roster file: the AgentInfo it builds from the body at
\* time `at`, and agents.json after save_agent has stored it.
Registered(agents, registration, at) ==
    LET agent == AgentInfo(registration.agent_id, registration.description, at,
                           registration.capabilities,
                           IF registration.status # None
                           THEN registration.status ELSE "active",
                           registration.metadata)
        idx == existing_idx(agents, agent.agent_id)
    IN  IF idx # 0 THEN [agents EXCEPT ![idx] = agent] ELSE Append(agents, agent)

\* get_review_queue: the bucket one shard is appended to, from its git_info
\* (working_tree, merge_status, commits_ahead) and its age_days, a set holding
\* the age or nothing for None.
get_review_queue(git_info, age_days, stale_days) ==
    IF git_info.working_tree = "dirty" THEN "needs_commit"
    ELSE IF git_info.merge_status = "conflict" THEN "conflicts"
    ELSE IF /\ git_info.commits_ahead > 0 /\ git_info.working_tree = "clean"
            /\ git_info.merge_status = "clean" THEN "ready"
    ELSE IF /\ git_info.commits_ahead = 0
            /\ \E a \in age_days : a >= stale_days THEN "stale"
    ELSE IF git_info.commits_ahead > 0 THEN "ready"
    ELSE "ready"

\* JSONStore.move_folio for one folio_id. store.dirs are the site directories
\* there are, store.files[s] is the site_id in sites/<s>/folios/<folio_id>.json,
\* None without that file. The value is the site_id of the Folio returned, or
\* "None", or "ValueError".
move_folio(store, dest_site_id) ==
    LET found == { s \in store.dirs : store.files[s] # None }
        source_site_id == CHOOSE s \in found : TRUE
        saved == [store.files EXCEPT ![dest_site_id] = dest_site_id]
        unlinked == [saved EXCEPT ![source_site_id] = None]
    IN  IF found = {} THEN [store |-> store, value |-> "None"]
        ELSE IF dest_site_id \notin store.dirs
        THEN [store |-> store, value |-> "ValueError"]
        ELSE [store |-> [store EXCEPT !.files = unlinked], value |-> dest_site_id]

\* The Site create_site builds from the body and the X-Agent-Id header at
\* time `at`.
Site(site_create, x_agent_id, at) ==
    [site_id |-> site_create.site_id, created_at |-> at,
     created_by |-> IF x_agent_id # None THEN x_agent_id ELSE "unknown",
     purpose |-> site_create.purpose]

\* JSONStore.save_site: sites/<site_id>/metadata.json afterwards, metadata_file
\* being what it held before ([site_id |-> None] when it was not there); the
\* folios directory is made if missing and otherwise left alone.
save_site(metadata_file, site) == site

MAX_SEQUENCE_NUMBER == 999

\* Python's int() of the strings the model uses as a name's last part: {n} for
\* the integer, {} where it raises ValueError.
int(seq_str) ==
    CASE seq_str = "000" -> {0}
      [] seq_str = "001" -> {1}
      [] seq_str = "002" -> {2}
      [] seq_str = "5" -> {5}
      [] seq_str = "007" -> {7}
      [] seq_str = "998" -> {998}
      [] seq_str = "999" -> {999}
      [] seq_str = "1000" -> {1000}
      [] OTHER -> {}

\* _get_next_sequence on the names found in worktrees/. A name is the list of
\* its pieces, each "-" a piece of its own: startswith(pattern_prefix) compares
\* the leading pieces, split("-")[-1] is the last piece, "" after a final "-".
next_seq(existing, pattern_prefix) ==
    LET matching == { d \in existing :
                        /\ Len(d) >= Len(pattern_prefix)
                        /\ SubSeq(d, 1, Len(pattern_prefix)) = pattern_prefix }
        seq_str(d) == IF d[Len(d)] = "-" THEN "" ELSE d[Len(d)]
        sequences == { n \in UNION { int(seq_str(d)) : d \in matching } :
                         1 <= n /\ n <= MAX_SEQUENCE_NUMBER }
        next == IF sequences = {} THEN 1
                ELSE (CHOOSE n \in sequences : \A m \in sequences : m <= n) + 1
    IN  IF next > MAX_SEQUENCE_NUMBER THEN ShardError ELSE [next_seq |-> next]

\* The directories the model puts in worktrees/: shards of fix on 2025-11-09
\* by what follows "fix-20251109-", and a shard of another name.
Worktrees ==
    { <<"fix", "-", "20251109", "-">> \o rest :
        rest \in { <<"001">>, <<"002">>, <<"998">>, <<"999">>, <<"000">>, <<"1000">>,
                   <<"001", "-", "graft">>, <<"-", "5">> } }
    \cup { <<"other", "-", "20251109", "-", "007">> }

\* ----------------------------------------------------------------- log lines

\* LogDatabase._init_db: the logs table and its full-text index logs_fts, an
\* FTS5 table over the message column whose content is the logs table
\* (content=logs); `indexed` holds the rowids the index has entries for.
_init_db == [logs |-> <<>>, indexed |-> {}]

\* LogDatabase.add_logs(stream_id, source, lines) at a time: one INSERT INTO
\* logs per line, the timestamp being the column's default CURRENT_TIMESTAMP.
RECURSIVE add_logs(_, _, _, _)
add_logs(db, stream_id, lines, current_timestamp) ==
    IF lines = <<>> THEN db
    ELSE add_logs([db EXCEPT !.logs = Append(@,
                        [id |-> Len(db.logs) + 1, stream_id |-> stream_id,
                         timestamp |-> current_timestamp,
                         level |-> Head(lines).level,
                         message |-> Head(lines).message])],
                  stream_id, Tail(lines), current_timestamp)

\* LogDatabase.get_logs(stream_id, since, level, search, limit): the ids of
\* the rows of the query, in its order (ORDER BY timestamp DESC, rows of one
\* timestamp as stored). None, and 0 for since, stand for a filter that is
\* not supplied.
get_logs(db, stream_id, since, level, search, limit) ==
    LET rows == { db.logs[i] : i \in 1..Len(db.logs) }
        matches(row) ==
            IF search # None
            THEN /\ row.stream_id = stream_id
                 /\ row.id \in db.indexed
                 /\ \E k \in 1..Len(row.message) : row.message[k] = search
            ELSE /\ row.stream_id = stream_id
                 /\ since # 0 => row.timestamp >= since
                 /\ level # None => row.level = level
        selected == { row \in rows : matches(row) }
        before(a, b) == a.timestamp > b.timestamp
                        \/ (a.timestamp = b.timestamp /\ a.id < b.id)
        rank(row) == 1 + Cardinality({ other \in selected : before(other, row) })
        n == IF Cardinality(selected) < limit THEN Cardinality(selected) ELSE limit
    IN  [ k \in 1..n |-> (CHOOSE row \in selected : rank(row) = k).id ]

\* The database the model queries: two calls for stream s1, one for s2.
StoredLogs ==
    add_logs(
        add_logs(
            add_logs(_init_db, "s1",
                     << [level |-> "ERROR", message |-> <<"disk", "full">>],
                        [level |-> "INFO", message |-> <<"disk", "ok">>] >>, 1),
            "s2", << [level |-> "ERROR", message |-> <<"disk", "full">>] >>, 2),
        "s1", << [level |-> "ERROR", message |-> <<"net", "down">>],
                 [level |-> "INFO", message |-> <<"disk", "full">>] >>, 3)

\* ------------------------------------------------------------- folio titles

\* The character classes of the patterns: \s, \d, \w and [a-z] without case.
Whitespace == {" ", "\t", "\n"}
Digits == {"0", "1", "2", "3", "4", "5", "6", "7", "8", "9"}
AnyLetter == { Letters[k] : k \in 1..26 } \cup { Capitals[k] : k \in 1..26 }

GENERIC_TITLES ==
    { <<"h", "a", "n", "d", "o", "f", "f">>,
      <<"h", "a", "n", "d", "o", "f", "f", " ", "b", "r", "i", "e", "f">>,
      <<"b", "r", "i", "e", "f">>, <<"u", "n", "t", "i", "t", "l", "e", "d">>,
      <<"t", "e", "s", "t">>, <<"t", "i", "t", "l", "e">>,
      <<"i", "s", "s", "u", "e">>, <<"f", "r", "i", "c", "t", "i", "o", "n">>,
      <<"f", "i", "n", "d", "i", "n", "g">>, <<"n", "o", "t", "i", "o", "n">>,
      <<"s", "u", "m", "m", "a", "r", "y">>, <<"t", "e", "n", "d", "e", "r">>,
      <<"w", "r", "i", "t">>, <<"n", "e", "w", " ", "f", "o", "l", "i", "o">>,
      <<"f", "o", "l", "i", "o">>, <<"u", "p", "d", "a", "t", "e">>,
      <<"f", "i", "x">>, <<"c", "h", "a", "n", "g", "e">>, <<"t", "o", "d", "o">>,
      <<"t", "a", "s", "k">> }

\* The alternatives of TYPE_PREFIX_PATTERN.
TYPE_PREFIX_PATTERN ==
    { <<"t", "e", "n", "d", "e", "r">>, <<"b", "r", "i", "e", "f">>,
      <<"i", "s", "s", "u", "e">>, <<"f", "i", "n", "d", "i", "n", "g">>,
      <<"f", "r", "i", "c", "t", "i", "o", "n">>, <<"n", "o", "t", "i", "o", "n">>,
      <<"s", "u", "m", "m", "a", "r", "y">>, <<"w", "r", "i", "t">>,
      <<"p", "l", "a", "y", "b", "o", "o", "k">>, <<"m", "a", "n", "t", "l", "e">>,
      <<"p", "l", "a", "n">> }

\* str.strip().
strip(s) ==
    LET kept == {i \in 1..Len(s) : s[i] \notin Whitespace}
    IN  IF s = <<>> \/ kept = {} THEN <<>>
        ELSE SubSeq(s, CHOOSE i \in kept : \A j \in kept : i <= j,
                       CHOOSE i \in kept : \A j \in kept : j <= i)

\* Where a greedy run of characters of a class that starts at i stops.
run(s, i, class) ==
    LET stops == {j \in i..Len(s) : s[j] \notin class}
    IN  IF stops = {} THEN Len(s) + 1 ELSE CHOOSE j \in stops : \A k \in stops : j <= k

\* The literal stands at i, whatever its case (re.IGNORECASE).
stands(s, i, literal) ==
    /\ i >= 1 /\ i + Len(literal) - 1 <= Len(s)
    /\ lower(SubSeq(s, i, i + Len(literal) - 1)) = literal

\* n characters of a class stand at i.
times(s, i, n, class) ==
    i >= 1 /\ i + n - 1 <= Len(s) /\ \A j \in i..(i + n - 1) : lower(<<s[j]>>)[1] \in class

\* s[i-1:], what is left from i on.
from(s, i) == SubSeq(s, i, Len(s))

\* re.sub(r'^#+\s*', '', title).
leading_headers(s) ==
    IF s # <<>> /\ stands(s, 1, <<"#">>) THEN from(s, run(s, run(s, 1, {"#"}), Whitespace)) ELSE s

\* re.sub(r'^\*\*(.+?)\*\*', r'\1', title), and the same with __: the shortest
\* wrapped text of at least one character and without a newline.
bold_wrapper(s, mark) ==
    LET closes == {k \in 4..(Len(s) - 1) :
                      /\ stands(s, k, mark)
                      /\ \A j \in 3..(k - 1) : s[j] # "\n"}
        k == CHOOSE c \in closes : \A d \in closes : c <= d
    IN  IF s # <<>> /\ stands(s, 1, mark) /\ closes # {}
        THEN SubSeq(s, 3, k - 1) \o from(s, k + 2) ELSE s

\* Where a match of STATUS_MARKER_PATTERN that starts at i stops, 0 without one:
\* (\*\*)?Status:(\*\*)?\s*\w+\.?\s*
status_marker(s, i) ==
    LET a == IF stands(s, i, <<"*", "*">>) THEN i + 2 ELSE i
        b == a + 7
        c == IF stands(s, b, <<"*", "*">>) THEN b + 2 ELSE b
        d == run(s, c, Whitespace)
        e == run(s, d, Alnum \cup {"_"})
        f == IF stands(s, e, <<".">>) THEN e + 1 ELSE e
    IN  IF stands(s, a, <<"s", "t", "a", "t", "u", "s", ":">>) /\ e > d
        THEN run(s, f, Whitespace) ELSE 0

\* STATUS_MARKER_PATTERN.sub('', title) from i on: every match, left to right,
\* each search starting where the match before stopped.
RECURSIVE status_markers_sub(_, _)
status_markers_sub(s, i) ==
    LET starts == {j \in i..Len(s) : status_marker(s, j) > 0}
        j == CHOOSE m \in starts : \A n \in starts : m <= n
    IN  IF s = <<>> \/ starts = {} THEN from(s, i)
        ELSE SubSeq(s, i, j - 1) \o status_markers_sub(s, status_marker(s, j))

\* TYPE_PREFIX_PATTERN.sub('', title): ^(tender|brief|...):\s*
type_prefix_sub(s) ==
    LET c == run(s, 1, AnyLetter)
    IN  IF /\ s # <<>> /\ stands(s, c, <<":">>)
           /\ lower(SubSeq(s, 1, c - 1)) \in TYPE_PREFIX_PATTERN
        THEN from(s, run(s, c + 1, Whitespace)) ELSE s

\* SHARD_ID_PATTERN.sub('', title):
\* ^[a-f0-9]{8}-\d{8}-\d{3,6}:\s* or ^[a-z]+-\d{4}-\d{8}-\d{3}:\s*
shard_id_sub(s) ==
    LET d == run(s, 19, Digits)
        l == run(s, 1, AnyLetter)
    IN  IF /\ s # <<>>
           /\ times(s, 1, 8, Digits \cup {"a", "b", "c", "d", "e", "f"})
           /\ stands(s, 9, <<"-">>) /\ times(s, 10, 8, Digits) /\ stands(s, 18, <<"-">>)
           /\ d - 19 \in 3..6 /\ stands(s, d, <<":">>)
        THEN from(s, run(s, d + 1, Whitespace))
        ELSE IF /\ l > 1 /\ stands(s, l, <<"-">>) /\ times(s, l + 1, 4, Digits)
                /\ stands(s, l + 5, <<"-">>) /\ times(s, l + 6, 8, Digits)
                /\ stands(s, l + 14, <<"-">>) /\ times(s, l + 15, 3, Digits)
                /\ stands(s, l + 18, <<":">>)
        THEN from(s, run(s, l + 19, Whitespace))
        ELSE s

\* What validate_folio_title answers in place of a title.
HTTPException == [status_code |-> 400]

\* validate_folio_title(title, folio_type): the cleaned title, or the refusal.
validate_folio_title(title) ==
    LET stripped == strip(bold_wrapper(bold_wrapper(leading_headers(strip(title)),
                                                    <<"*", "*">>), <<"_", "_">>))
        cleaned == strip(type_prefix_sub(shard_id_sub(type_prefix_sub(
                       status_markers_sub(stripped, 1)))))
    IN  IF strip(title) = <<>> THEN HTTPException
        ELSE IF lower(cleaned) \in GENERIC_TITLES THEN HTTPException
        ELSE IF Len(cleaned) < 10 THEN HTTPException
        ELSE IF Len(cleaned) > 100
        THEN [title |-> SubSeq(cleaned, 1, 97) \o <<".", ".", ".">>]
        ELSE [title |-> cleaned]

\* The titles the model posts: up to two pieces of cruft before a text.
Titles ==
    LET cruft == { <<>>, <<"#", "#", " ">>, <<"T", "e", "n", "d", "e", "r", ":", " ">>,
                   <<"S", "t", "a", "t", "u", "s", ":", " ", "d", "o", "n", "e", ".", " ">>,
                   <<"6", "5", "a", "f", "2", "0", "3", "9", "-", "2", "0", "2", "5", "1", "2", "0", "5", "-", "0", "0", "1", ":", " ">>,
                   <<"b", "u", "c", "k", "e", "t", "-", "1", "2", "1", "0", "-", "2", "0", "2", "5", "1", "2", "1", "0", "-", "0", "0", "1", ":", " ">>, <<"*", "*">>, <<" ">> }
        text == { <<"A", "d", "d", " ", "r", "e", "t", "r", "y", " ", "t", "o", " ", "s", "y", "n", "c">>, <<"h", "a", "n", "d", "o", "f", "f", " ", "b", "r", "i", "e", "f">>,
                  <<"F", "i", "x", "*", "*">>, <<"_", "_", "R", "e", "t", "r", "y", "_", "_", " ", "t", "h", "e", " ", "s", "y", "n", "c", " ", "j", "o", "b">>,
                  [i \in 1..101 |-> IF i % 7 = 0 THEN " " ELSE "a"] }
    IN  { a \o b \o c : a \in cruft, b \in cruft, c \in text } \cup {<<>>}

\* The calls the model makes. A registration meets an empty roster, alice
\* alone, or bob then alice.
Args ==
    LET alice == AgentInfo("alice", "reviewer", 0, <<"review">>, "active",
                           {<<"chain", "c1">>})
        bob == AgentInfo("bob", None, 0, <<>>, "retired", {})
        StoredRosters == {<<>>, <<alice>>, <<bob, alice>>}
        Registrations ==
            [agent_id : Agents, description : {None, "tester"},
             capabilities : {<<>>, <<"test">>}, status : {None, "retired"},
             metadata : {{}, {<<"role", "qa">>}, {<<"chain", "c2">>}}]
    IN
    { [fn |-> "register_agent", agents |-> r, registration |-> b, at |-> 1] :
        r \in StoredRosters, b \in Registrations }
    \cup
    { [fn |-> "validate_folio_title", title |-> t] : t \in Titles }
    \cup
    UNION { { [fn |-> "cleanup_graft_chain", worktree_name |-> n, caller_cwd |-> c,
                r |-> [table |-> t, worktrees |-> w, locked |-> l]] :
                  n \in GraftNames, c \in w \cup {<<>>}, l \in SUBSET w,
                  t \in {GraftNames, w, {}} } :
            w \in SUBSET GraftNames }
    \cup
    { [fn |-> "get_logs", db |-> StoredLogs, stream_id |-> st, since |-> si,
       level |-> le, search |-> se, limit |-> li] :
        st \in {"s1", "s2"}, si \in {0, 2}, le \in {None, "ERROR", "INFO"},
        se \in {None, "disk", "full"}, li \in {1, 2, 1000} }
    \cup
    { [fn |-> "create_site", metadata_file |-> m, x_agent_id |-> x, at |-> 1,
       site_create |-> [site_id |-> "ops", purpose |-> p]] :
        m \in { [site_id |-> None],
                [site_id |-> "ops", created_at |-> 0, created_by |-> "alice",
                 purpose |-> "operations"] },
        x \in {None, "alice", "bob"}, p \in {"operations", "on call"} }
    \cup
    { [fn |-> "move_folio", dest_site_id |-> d,
       store |-> [dirs |-> dirs,
                  files |-> [s \in {"ops", "dev", "lab"} |-> IF s = at THEN s ELSE None]]] :
        dirs \in { x \in SUBSET {"ops", "dev", "lab"} : "ops" \in x },
        at \in {"ops", None}, d \in {"ops", "dev", "lab"} }
    \cup
    { [fn |-> "get_review_queue", git_info |-> g, age_days |-> a, stale_days |-> 7] :
        g \in [working_tree : {"clean", "dirty", "unknown"},
               merge_status : {"clean", "conflict", "unknown"},
               commits_ahead : 0..2],
        a \in {{}, {0}, {7}, {30}} }
    \cup
    { [fn |-> "_get_next_sequence", existing |-> e,
       pattern_prefix |-> <<"fix", "-", "20251109", "-">>] : e \in SUBSET Worktrees }
    \cup
    { [fn |-> "_is_path_inside_worktree", path |-> PathAt(l, r), worktree_path |-> w] :
        l \in {Root, WorktreesDir, Elsewhere} \cup Shards,
        r \in {Root, WorktreesDir, Elsewhere, "OSError", "RuntimeError"} \cup Shards,
        w \in Shards }
    \cup
    { [fn |-> "get_graft_chain_root", table |-> t, worktree_name |-> n] :
        t \in SUBSET GraftNames, n \in GraftNames }
    \cup UNION { { [fn |-> "get_inbox", all_threads |-> l, agent_id |-> "alice"] :
                    l \in Listings(Conversation(n, first, link)) } :
                  n \in 1..MaxChain, first \in {"to_id", "weaver"},
                  link \in {"to_id", "from_id"} }

\* What the function called returns.
Returns(a) ==
    CASE a.fn = "get_graft_chain_root" -> get_graft_chain_root(a.table, a.worktree_name)
      [] a.fn = "get_inbox" -> get_inbox(a.all_threads, a.agent_id)
      [] a.fn = "register_agent" -> Registered(a.agents, a.registration, a.at)
      [] a.fn = "validate_folio_title" -> validate_folio_title(a.title)
      [] a.fn = "cleanup_graft_chain" ->
            cleanup_graft_chain(a.r, a.worktree_name, a.caller_cwd)
      [] a.fn = "get_logs" ->
            get_logs(a.db, a.stream_id, a.since, a.level, a.search, a.limit)
      [] a.fn = "create_site" ->
            save_site(a.metadata_file, Site(a.site_create, a.x_agent_id, a.at))
      [] a.fn = "move_folio" -> move_folio(a.store, a.dest_site_id)
      [] a.fn = "get_review_queue" ->
            get_review_queue(a.git_info, a.age_days, a.stale_days)
      [] a.fn = "_get_next_sequence" -> next_seq(a.existing, a.pattern_prefix)
      [] a.fn = "_is_path_inside_worktree" ->
            IF propagates(a.path) # None THEN propagates(a.path)
            ELSE IF _is_path_inside_worktree(a.path, a.worktree_path)
            THEN "True" ELSE "False"

\* The call returns.
return ==
    /\ returned = <<>>
    /\ returned' = <<Returns(args)>>
    /\ UNCHANGED <<repo, git_version, cwd, calls, result, grafts, spawning, args,
                   yields, completing, disk>>
    /\ UNCHANGED skeinVars

\* A function about to be called, with any of the arguments.
CallsInit ==
    /\ ShardInit /\ SkeinInit /\ sites = [p \in Projects |-> {}]
    /\ git_version = <<2, 38>> /\ args \in Args /\ returned = <<>>

\* One call of one function.
SpecCalls == CallsInit /\ [][return]_vars


\* ------------------------------------------------------------ derived reads

StatusThreads(p, f) == get_threads(threads[p], None, f, "status")
AssignmentThreads(p, f) == get_threads(threads[p], f, None, "assignment")

\* The status GET /folios/{f} can answer with in project p: the computed status,
\* else the stored one, else "open".
ReadStatus(p, f) ==
    { IF s[1] # None THEN s[1]
      ELSE IF folios[p][f].status # None THEN folios[p][f].status ELSE "open" :
      s \in get_current_status(status_cache, threads[p], f) }

\* The assignee GET /folios/{f} can answer with in project p.
ReadAssignment(p, f) ==
    { IF a[1] # None THEN a[1] ELSE folios[p][f].assigned_to :
      a \in get_current_assignment(assignment_cache, threads[p], f) }

\* The step is a served request that named project q.
Named(q) == requests' = requests + 1 /\ lastReq'.project = q

\* -------------------------------------------------------------------- claims

\* C1: in a single project, a folio with at least one status thread has, as its
\* derived status (served from the cache or computed), the content of a status
\* thread of greatest creation timestamp.
C1_StatusIsLatestThread ==
    \A f \in FolioIds :
        StatusThreads("acme", f) # {} =>
            { s[1] : s \in get_current_status(status_cache, threads["acme"], f) }
                \subseteq { t.content : t \in Latest(StatusThreads("acme", f)) }

\* C2: once a status (assignment) thread for folio f is stored in project p, a
\* read of f in p is not answered with a value computed without it; the cached
\* "no status" ("no assignment") is such a value.
C2_NoStaleReadAfterAppend ==
    \A p \in Projects, f \in FolioIds :
        folios[p][f] # NoFolio =>
            /\ StatusThreads(p, f) # {} => status_cache[f] # None
            /\ AssignmentThreads(p, f) # {} => assignment_cache[f] # None

\* C3: a request that names project q changes nothing of what a read of a folio
\* in another project p answers.
C3_ProjectsIsolated ==
    [][ \A p \in Projects, q \in Projects, f \in FolioIds :
          (q # p /\ Named(q) /\ folios[p][f] # NoFolio) =>
              /\ ReadStatus(p, f)' = ReadStatus(p, f)
              /\ ReadAssignment(p, f)' = ReadAssignment(p, f) ]_vars

\* C4: a stored thread stays stored, and only its read timestamp ever changes.
C4_ThreadsAppendOnly ==
    [][ \A p \in Projects, t \in ThreadIds :
          threads[p][t] # NoThread =>
              /\ threads[p][t]' # NoThread
              /\ [threads[p][t]' EXCEPT !.read_at = None]
                   = [threads[p][t] EXCEPT !.read_at = None] ]_vars

\* C10: a request without a project identifier is answered 400 and leaves the
\* stores and the caches as they were.
C10_NoProjectRejected ==
    [][ Named(NoProject) =>
          /\ lastReq'.code = 400
          /\ UNCHANGED <<sites, folios, threads, status_cache, assignment_cache>> ]_vars

\* C11: an append for a folio that starts after an earlier append for the same
\* folio has returned stores a thread with a strictly greater creation
\* timestamp, which the derived-state engine therefore ranks as the more recent.
C11_AppendsOrderedByTimestamp ==
    [][ \A t \in ThreadIds, u \in ThreadIds :
          LET A == threads["acme"][u]
              B == threads'["acme"][t]
          IN  ( /\ requests' = requests + 1
                /\ t \in lastReq'.thread_ids /\ u \notin lastReq'.thread_ids
                /\ A # NoThread /\ B.type = A.type
                /\ \/ A.type = "status" /\ B.to_id = A.to_id
                   \/ A.type = "assignment" /\ B.from_id = A.from_id )
              => /\ B.created_at > A.created_at
                 /\ Latest({A, B}) = {B} ]_vars

\* C12: the status a read reports is the content of the folio's most recent
\* status thread when it has one, else its stored status, else "open".
C12_StatusFromLatestThread ==
    \A f \in FolioIds :
        folios["acme"][f] # NoFolio =>
            ReadStatus("acme", f) \subseteq
                IF StatusThreads("acme", f) # {}
                THEN { t.content : t \in Latest(StatusThreads("acme", f)) }
                ELSE IF folios["acme"][f].status # None
                THEN { folios["acme"][f].status }
                ELSE { "open" }

\* C13: a folio with at least one assignment thread has, as its derived
\* assignment, the to_id of an assignment thread of greatest creation timestamp.
C13_AssignmentIsLatestThread ==
    \A p \in Projects, f \in FolioIds :
        AssignmentThreads(p, f) # {} =>
            { a[1] : a \in get_current_assignment(assignment_cache, threads[p], f) }
                \subseteq { t.to_id : t \in Latest(AssignmentThreads(p, f)) }

\* C14: a request whose generated folio or thread identifier is the identifier
\* of a record already stored in its project is answered with an internal
\* error (500) and leaves that record as it was.
C14_CollisionIsInternalError ==
    [][ \A p \in Projects :
          Named(p) =>
            /\ \A f \in FolioIds :
                  (lastReq'.folio_id = f /\ folios[p][f] # NoFolio)
                     => (lastReq'.code = 500 /\ folios'[p][f] = folios[p][f])
            /\ \A t \in lastReq'.thread_ids :
                  threads[p][t] # NoThread
                     => (lastReq'.code = 500 /\ threads'[p][t] = threads[p][t]) ]_vars

\* C15: once an agent's roster status is "retired", no register or patch
\* request changes it.
C15_RetiredIsTerminal ==
    [][ \A p \in Projects, a \in Agents :
          roster[p][a] = "retired" => roster'[p][a] = "retired" ]_vars

\* The step is a call of op.
Calls(op) == calls' = calls + 1 /\ result'.op = op

\* The caller's working directory during the step: the caller_cwd passed, else
\* the process's current directory.
CallerDirectoryKnown ==
    IF result'.caller_cwd # NoCwd THEN result'.caller_cwd.resolved # "OSError"
    ELSE cwd.exists

CallerDirectoryInside(shard) ==
    IF result'.caller_cwd # NoCwd
    THEN \/ Within(result'.caller_cwd.literal, shard)
         \/ Within(result'.caller_cwd.resolved, shard)
    ELSE Within(cwd.at, shard)

\* C5: cleanup_shard and merge_shard remove no working tree the caller's working
\* directory lies inside, and none when that directory cannot be determined or
\* resolved.
C5_NoSelfDeletion ==
    [][ (Calls("cleanup") \/ Calls("merge")) =>
          \A shard \in repo.registered \ repo'.registered :
              CallerDirectoryKnown /\ ~CallerDirectoryInside(shard) ]_vars

\* C6: whatever string cleanup_shard is given, it removes nothing but the
\* working tree worktrees/<basename of the string>, nothing that lies outside
\* the worktrees directory, and nothing at all when the basename is empty, is
\* "worktrees", or resolves to a place not strictly inside the worktrees
\* directory.
C6_CleanupStaysInside ==
    [][ Calls("cleanup") =>
          LET basename == PathName(result'.arg)
              target == resolve(repo, basename)
          IN  /\ repo.registered \ repo'.registered \subseteq {basename}
              /\ repo'.external = repo.external
              /\ (basename \in {"", WorktreesDir}
                    \/ target \in {Root, WorktreesDir, External})
                 => (result'.outcome = "raised" /\ repo' = repo) ]_vars

\* C6 happens: a full path was passed, its working tree is gone and another
\* one is still there.
C6_Witness ==
    /\ result.op = "cleanup" /\ result.outcome = "ok"
    /\ Len(result.arg) > 1
    /\ PathName(result.arg) \notin repo.registered
    /\ repo.registered # {}

\* C7: merge_shard checks out master and merges only when the merge status it
\* computed is "clean"; with "conflict" or "unknown" (git older than 2.38, or
\* merge-tree failing) it returns success=false and the repository is as before.
C7_MergeOnlyWhenClean ==
    [][ Calls("merge") =>
          /\ (result'.checked_out \/ result'.merged) => result'.merge_status = "clean"
          /\ result'.merge_status \in {"conflict", "unknown"}
                => (result'.outcome = "false" /\ repo' = repo)
          /\ (git_too_old(git_version) \/ PathName(result'.arg) \in repo.conflicting)
                => (repo'.master = repo.master /\ repo'.head = repo.head) ]_vars

\* C7 happens: the working tree is clean, the merge status is unknown, and
\* merge_shard said success=false.
C7_Witness ==
    /\ result.op = "merge" /\ result.outcome = "false"
    /\ result.working_tree = "clean" /\ result.merge_status = "unknown"

\* C8: merge_shard merges only when the shard's working tree was found clean,
\* and never a working tree with uncommitted changes.
C8_MergeOnlyCleanTree ==
    [][ (Calls("merge") /\ result'.merged) =>
          /\ result'.working_tree = "clean"
          /\ PathName(result'.arg) \notin repo.dirty ]_vars

C17_BranchesFromMaster ==
    [][ (Calls("spawn") /\ result'.outcome = "ok") =>
            LET worktree_name == result'.worktree_name
            IN  /\ repo'.start[worktree_name] = rev_parse(repo, "master")
                /\ repo'.meta[worktree_name] = repo'.start[worktree_name] ]_vars

\* A step that is cleanup_shard(n), keep_branch left False, returning True
\* right after the spawn_shard that returned n.
SpawnThenCleanup ==
    /\ result.op = "spawn" /\ result.outcome = "ok"
    /\ Calls("cleanup") /\ result'.outcome = "ok"
    /\ \E a \in NameArgs, c \in CallerCwds, root \in {None, Root} :
           PathName(a) = result.worktree_name /\ cleanup_shard(a, FALSE, c, root)

C20_GraftSucceedsOnlyIfAllPicked ==
    [][ Calls("graft") =>
            LET shard == PathName(result'.arg)
                commits == grafts[shard].commits
                g == grafts'[shard].graft
            IN  /\ result'.outcome = "ok" => g.picked = Len(commits) /\ ~g.stopped
                /\ (grafts' # grafts /\ g.stopped) =>
                       /\ result'.outcome = "false"
                       /\ g.conflict_files = {g.picked + 1} ]_vars

\* The calls of spawn_shard that made a working tree, and those that returned.
Made == { p \in Procs : spawning[p].pc \in {"added", "returned"} }
Returned == { p \in Procs : spawning[p].pc = "returned" }

C21_ChainRootIsOriginal ==
    (args # <<>> /\ args.fn = "get_graft_chain_root" /\ returned # <<>>
     /\ Len(args.worktree_name) > 1)
        => returned[1] = <<WorktreeNames[1]>>

\* C22: the inbox of an agent is the threads sent to it or woven by it,
\* closed five times under "replies to a thread of the set", in whatever
\* order the stored threads are listed.
C22_InboxIsFiveRounds ==
    (args # <<>> /\ args.fn = "get_inbox" /\ returned # <<>>) =>
        LET stored == { args.all_threads[i] : i \in DOMAIN args.all_threads }
            Round(S) == S \cup { t.thread_id : t \in { u \in stored :
                                   u.from_id \in S \/ u.to_id \in S } }
            S0 == { t.thread_id : t \in { u \in stored :
                      u.to_id = args.agent_id \/ u.weaver = args.agent_id } }
        IN  returned[1] = Round(Round(Round(Round(Round(S0)))))

\* C23: a folio patch leaves folio_id, site_id and the stored status and
\* assignment of the folio record as they were: status and assignment change
\* by appended threads only.
C23_PatchKeepsStoredFields ==
    [][ \A p \in Projects, f \in FolioIds, w \in Callers,
           st \in {None} \cup StatusValues, a \in {None} \cup Agents :
            (folios[p][f] # NoFolio /\ update_folio(p, f, w, st, a)) =>
                /\ folios'[p][f].folio_id = folios[p][f].folio_id
                /\ folios'[p][f].site_id = folios[p][f].site_id
                /\ folios'[p][f].status = folios[p][f].status
                /\ folios'[p][f].assigned_to = folios[p][f].assigned_to ]_vars

C25_UnknownProjectNotFound ==
    [][ Named(Unregistered) =>
          /\ lastReq'.code = 404
          /\ UNCHANGED <<sites, folios, threads, status_cache, assignment_cache,
                         roster>> ]_vars

\* C26: registering an agent_id the roster already holds keeps, in that entry,
\* the registration timestamp, and the description, the capabilities and every
\* metadata key the new registration does not supply.
C26_RegisterMerges ==
    (args # <<>> /\ args.fn = "register_agent" /\ returned # <<>>) =>
        \A i \in DOMAIN args.agents :
            LET old == args.agents[i]
                b == args.registration
                new == returned[1][i]
            IN  old.agent_id = b.agent_id =>
                  /\ Len(returned[1]) = Len(args.agents)
                  /\ new.registered_at = old.registered_at
                  /\ (b.description = None => new.description = old.description)
                  /\ (b.capabilities = <<>> => new.capabilities = old.capabilities)
                  /\ \A kv \in old.metadata :
                        (\A n \in b.metadata : n[1] # kv[1]) => kv \in new.metadata

\* C27: in whatever order register and patch requests for the same or for
\* different agents are handled, no roster entry goes away, and an agent whose
\* registration was answered with success is in the roster.
C27_RosterNeverShrinks ==
    [][ \A p \in Projects, a \in Agents :
          /\ roster[p][a] # None => roster'[p][a] # None
          /\ \A st \in {None} \cup AgentStatuses :
                (register_agent(p, a, st) /\ lastReq'.code = 200)
                    => roster'[p][a] # None ]_vars

\* Two agents are in one roster after registrations and a patch.
C27_Witness ==
    \E p \in Projects :
        /\ \A a \in Agents : roster[p][a] # None
        /\ \E a \in Agents : roster[p][a] = "retired"
        /\ requests >= 3
        /\ lastReq.code = 200

\* C28: when `skein complete`, run with a chain identifier, makes the agent's
\* roster status retired, a yield of that chain is stored.
C28_YieldStoredBeforeRetired ==
    [][ ( /\ completing.pc = "retire" /\ completing'.pc = "done"
          /\ completing.chain_id # None
          /\ roster'[completing.project][completing.agent_id] = "retired"
          /\ roster' # roster )
        => completing.chain_id \in yields' ]_vars

\* C29: the check returns True when the path as written is the worktree or
\* below it, when the resolved path is below the resolved worktree, and when
\* resolving the path raises.
C29_InsideWhenInsideOrUnresolvable ==
    (args # <<>> /\ args.fn = "_is_path_inside_worktree" /\ returned # <<>>) =>
        ( ( \/ Within(args.path.literal, args.worktree_path)
            \/ Within(args.path.resolved, args.worktree_path)
            \/ args.path.resolved \in {"OSError", "RuntimeError"} )
          => returned[1] = "True" )

\* C30: the next sequence number is one more than the largest sequence number
\* in 1..999 among the directories <name>-<date>-<sequence> (1 without any),
\* a directory whose sequence is 000, above 999 or not a number in 1..999 being
\* ignored; the call raises when that exceeds 999, so what it returns is in
\* 1..999.
C30_NextSequence ==
    (args # <<>> /\ args.fn = "_get_next_sequence" /\ returned # <<>>) =>
        LET rest(d) == SubSeq(d, Len(args.pattern_prefix) + 1, Len(d))
            counted == { n \in 1..MAX_SEQUENCE_NUMBER :
                           \E d \in args.existing :
                               /\ Len(d) = Len(args.pattern_prefix) + 1
                               /\ SubSeq(d, 1, Len(args.pattern_prefix))
                                      = args.pattern_prefix
                               /\ n \in int(rest(d)[1]) }
            expected == IF counted = {} THEN 1
                        ELSE (CHOOSE n \in counted : \A m \in counted : m <= n) + 1
        IN  IF expected > MAX_SEQUENCE_NUMBER
            THEN returned[1] = ShardError
            ELSE returned[1] = [next_seq |-> expected]

\* The names section 4.7 rejects: empty, whitespace only, longer than 63, a
\* leading "." or "-", a final ".lock", ".." or "@{" inside, a reserved
\* identifier in any case, or anything but a letter or digit followed by
\* letters, digits, "_" and "-".
Rejected(name) ==
    LET has(pair) == \E i \in 1..(Len(name) - 1) : <<name[i], name[i + 1]>> = pair
        reserved == { <<"h", "e", "a", "d">>, <<"m", "a", "s", "t", "e", "r">>,
                      <<"m", "a", "i", "n">>, <<"r", "e", "f", "s">>,
                      <<"o", "b", "j", "e", "c", "t", "s">>,
                      <<"h", "o", "o", "k", "s">>, <<"i", "n", "f", "o">>,
                      <<"l", "o", "g", "s">>,
                      <<"w", "o", "r", "k", "t", "r", "e", "e", "s">> }
    IN  \/ name = <<>>
        \/ \A i \in DOMAIN name : name[i] \in {" ", "\t", "\n"}
        \/ Len(name) > 63
        \/ name[1] \in {".", "-"}
        \/ has(<<".", ".">>) \/ has(<<"@", "{">>)
        \/ (Len(name) >= 5 /\ SubSeq(name, Len(name) - 4, Len(name))
                                  = <<".", "l", "o", "c", "k">>)
        \/ lower(name) \in reserved
        \/ name[1] \notin Alnum
        \/ \E i \in 2..Len(name) : name[i] \notin Alnum \cup {"_", "-"}

\* C31: spawn_shard with a name the validator of section 4.7 rejects raises
\* and leaves worktrees, branches and metadata as they were; the name of every
\* shard there is passes that validator.
C31_RejectedNameSpawnsNothing ==
    [][ /\ (calls' = calls + 1 /\ result'.op = "spawn" /\ Rejected(result'.arg))
              => result'.outcome = "raised" /\ repo' = repo
        /\ \A w \in list_shards(repo') \cup repo'.branches :
              ~Rejected(repo'.name[w]) ]_vars

\* A spawn under a rejected name has just raised beside a shard spawned under
\* an accepted name.
C31_Witness ==
    /\ result.op = "spawn" /\ result.outcome = "raised" /\ Rejected(result.arg)
    /\ get_project_root(cwd, None)
    /\ \E w \in repo.registered : ~Rejected(repo.name[w])
    /\ _get_next_sequence(repo) <= MaxSeq

\* C32: a shard get_review_queue puts in the ready bucket has at least one
\* commit ahead, a clean working tree and a clean merge status.
C32_ReadyIsReady ==
    (args # <<>> /\ args.fn = "get_review_queue" /\ returned # <<>>
       /\ returned[1] = "ready") =>
        /\ args.git_info.commits_ahead > 0
        /\ args.git_info.working_tree = "clean"
        /\ args.git_info.merge_status = "clean"

\* C33: after move_folio returned a folio for a destination site that exists,
\* the one stored record of the folio is in that site's directory, with that
\* site_id.
C33_MovedFolioIsInDest ==
    (args # <<>> /\ args.fn = "move_folio" /\ returned # <<>>
       /\ returned[1].value \notin {"None", "ValueError"}) =>
        LET after == returned[1].store
        IN  /\ { s \in after.dirs : after.files[s] # None } = {args.dest_site_id}
            /\ after.files[args.dest_site_id] = args.dest_site_id

\* C34: a create-site request for a site that exists leaves the site's creation
\* timestamp and creator as they were.
C34_SiteCreatedOnce ==
    (args # <<>> /\ args.fn = "create_site" /\ returned # <<>>
       /\ args.metadata_file.site_id = args.site_create.site_id) =>
        /\ returned[1].created_at = args.metadata_file.created_at
        /\ returned[1].created_by = args.metadata_file.created_by

\* C35: a read of a record that runs while the record is being written returns
\* the complete previous record or the complete new one, never an empty or a
\* partial one.
C35_ReadSeesWholeRecord ==
    [][ disk'.loaded # disk.loaded =>
            disk'.loaded[1] \in {[data |-> disk.previous], [data |-> disk.new]} ]_vars

\* C36: cleaning a title is idempotent: validating the title the validator
\* returned returns that title unchanged.
C36_CleanIsIdempotent ==
    (/\ args # <<>> /\ args.fn = "validate_folio_title" /\ returned # <<>>
     /\ returned[1] # HTTPException) =>
        validate_folio_title(returned[1].title) = returned[1]

\* C37: get_logs returns exactly the stored lines of the stream, up to limit,
\* that pass every supplied filter: not earlier than since, of the level, and
\* with the search text in the message.
C37_LogsPassEveryFilter ==
    (args # <<>> /\ args.fn = "get_logs" /\ returned # <<>>) =>
        LET passing ==
                { i \in 1..Len(args.db.logs) :
                    /\ args.db.logs[i].stream_id = args.stream_id
                    /\ args.since # 0 => args.db.logs[i].timestamp >= args.since
                    /\ args.level # None => args.db.logs[i].level = args.level
                    /\ args.search # None =>
                           \E k \in 1..Len(args.db.logs[i].message) :
                               args.db.logs[i].message[k] = args.search }
            got == { returned[1][k] : k \in 1..Len(returned[1]) }
        IN  /\ got \subseteq passing
            /\ Cardinality(got) = Len(returned[1])
            /\ Cardinality(got) =
                   IF Cardinality(passing) < args.limit
                   THEN Cardinality(passing) ELSE args.limit

\* One worktree of a chain is a graft descended from the other.
Descends(graft, ancestor) ==
    /\ Len(ancestor) < Len(graft)
    /\ SubSeq(graft, 1, Len(ancestor)) = ancestor

\* The elements of a list.
Elements(list) == { list[i] : i \in 1..Len(list) }

\* A call of cleanup_graft_chain that returned its dictionary.
Cleaned ==
    /\ args # <<>> /\ args.fn = "cleanup_graft_chain" /\ returned # <<>>
    /\ returned[1] # ShardError

\* C38 as stated: when the removal of a graft fails, none of the worktrees it
\* descends from is removed by the call.
C38_AncestorsKeptOnFailure ==
    Cleaned =>
        \A graft \in Elements(returned[1].errors) :
            \A w \in Elements(returned[1].removed) : ~Descends(graft, w)

\* C38, amended: cleanup_graft_chain goes through the chain grafts first and
\* through all of it: a worktree is removed exactly when its own cleanup
\* succeeds, whether or not the grafts descended from it could be removed;
\* the failures are listed in errors and make success false.
C38_ChainCleanedGraftsFirst ==
    Cleaned =>
        LET chain == Elements(get_graft_chain(args.r.table, args.r.worktrees,
                                              args.worktree_name))
            failing == { w \in chain : w = args.caller_cwd \/ w \in args.r.locked }
            graftsFirst(list) ==
                \A i \in 1..Len(list) : \A j \in (i + 1)..Len(list) :
                    Descends(list[i], list[j])
        IN  /\ Elements(returned[1].removed) = chain \ failing
            /\ Elements(returned[1].errors) = failing
            /\ graftsFirst(returned[1].removed) /\ graftsFirst(returned[1].errors)
            /\ returned[1].worktrees = args.r.worktrees \ (chain \ failing)
            /\ returned[1].success = (failing = {})

\* A graft could not be removed and the shard it was grafted from was.
C38_Witness ==
    /\ Cleaned
    /\ \E graft \in Elements(returned[1].errors) :
           \E w \in Elements(returned[1].removed) : Descends(graft, w)

\* C39: after cleanup_shard with keep_branch has removed the only worktree
\* of a name, the next spawn_shard of that name, the same day, succeeds.
C39_SpawnAfterKeptBranch ==
    [][ (/\ result.op = "cleanup" /\ result.outcome = "ok"
         /\ list_shards(repo) = {}
         /\ PathName(result.arg) \in repo.branches /\ ~result.branch_failed
         /\ repo.name[PathName(result.arg)] = Fix
         /\ Calls("spawn") /\ result'.arg = Fix) =>
            result'.outcome = "ok" ]_vars

\* C40: a metadata record with status active refers to a worktree that
\* exists: once merge_shard or cleanup_shard has succeeded and removed the
\* shard's worktree, the shard's record is no longer active.
C40_RemovedShardNotActive ==
    [][ ((Calls("cleanup") \/ Calls("merge")) /\ result'.outcome = "ok") =>
            \A w \in list_shards(repo) \ list_shards(repo') :
                ~exists(repo', w) => repo'.status[w] # "active" ]_vars

====
